---- MODULE Spec2Model ----
(***************************************************************************)
(* Model of the QUANTICS local runner (src/src/runners/local_runner.py):   *)
(* the calculation registry, its JSON persistence, run_calculation and the *)
(* analysis batches; and of the workflow-platform adapter                  *)
(* (src/src/runners/aiida_integration.py): the output parser, the work     *)
(* chain and the integration layer.  Python strings that the code inspects *)
(* (tool names, .inp lines, calculation names) are sequences of            *)
(* one-character strings; None is the empty tuple and a present optional   *)
(* value v is <<v>>.                                                       *)
(***************************************************************************)
EXTENDS Integers, Sequences, FiniteSets, TLC

VARIABLES
    calculations,   \* LocalQuanticsRunner.calculations: name -> QuanticsCalculation
    config_file,    \* calculations.json: <<>> when absent, else <<data>>
    fs,             \* working directories on disk: working_directory -> contents
    clock,          \* the wall clock read by datetime.now()
    pc,             \* per caller: position inside the operation it is executing
    frame,          \* per caller: locals of the operation it is executing
    ret,            \* per caller: outcome of the last operation that returned or raised
    procs,          \* per calculation name: simulation subprocesses currently active
    effects,        \* I/O performed by the last step (saves, copies, spawns, mkdir)
    toolenv,        \* how each analysis executable behaves on this machine
    everCompleted,  \* per name: the present record has had status completed
    ncalls,         \* number of operations started so far
    quantics_code,  \* QuanticsAiidaIntegration.quantics_code: <<>> when unresolved
    profile,        \* the workflow platform's database: installed codes and nodes
    worker          \* the GUI's AiidaWorkerThread: its fields and the position of run()

vars == <<calculations, config_file, fs, clock, pc, frame, ret, procs, effects,
          toolenv, everCompleted, ncalls, quantics_code, profile, worker>>

-----------------------------------------------------------------------------
(* Bounds of the model *)

MaxClock == 2

MaxCalls == 4

AllCallers == {1, 2}

SeqCallers == {1}

-----------------------------------------------------------------------------
(* Python string operations used by the runner *)

Whitespace == {" ", "\t", "\n"}

StartsWith(s, p) == Len(s) >= Len(p) /\ SubSeq(s, 1, Len(p)) = p

Contains(s, ch) == \E i \in 1..Len(s) : s[i] = ch

RECURSIVE LStrip(_)
LStrip(s) == IF s # <<>> /\ Head(s) \in Whitespace THEN LStrip(Tail(s)) ELSE s

RECURSIVE RStrip(_)
RStrip(s) ==
    IF s # <<>> /\ s[Len(s)] \in Whitespace THEN RStrip(SubSeq(s, 1, Len(s) - 1)) ELSE s

Strip(s) == RStrip(LStrip(s))

\* str.split(sep): the pieces between occurrences of the one-character separator
RECURSIVE SplitOn(_, _, _)
SplitOn(s, sep, cur) ==
    IF s = <<>> THEN <<cur>>
    ELSE IF Head(s) = sep THEN <<cur>> \o SplitOn(Tail(s), sep, <<>>)
    ELSE SplitOn(Tail(s), sep, Append(cur, Head(s)))

\* str.split(): the maximal runs of non-whitespace characters
RECURSIVE SplitWs(_, _)
SplitWs(s, cur) ==
    IF s = <<>> THEN (IF cur = <<>> THEN <<>> ELSE <<cur>>)
    ELSE IF Head(s) \in Whitespace
         THEN (IF cur = <<>> THEN <<>> ELSE <<cur>>) \o SplitWs(Tail(s), <<>>)
    ELSE SplitWs(Tail(s), Append(cur, Head(s)))

\* str.replace(' ', '_')
ReplaceSpaces(s) == [i \in 1..Len(s) |-> IF s[i] = " " THEN "_" ELSE s[i]]

-----------------------------------------------------------------------------
(* Inputs *)

NameA == <<"h", "o">>

Names == {NameA}

NAME_BAR == <<"n", "a", "m", "e", " ", "=", " ", "b", "a", "r">>

OPNAME_FOO == <<"o", "p", "n", "a", "m", "e", " ", "=", " ", "f", "o", "o">>

TFINAL == <<"t", "f", "i", "n", "a", "l", "=", "1">>

BAR == <<"b", "a", "r">>

\* contents of the user's .inp file: a sequence of lines
InpContents == { <<OPNAME_FOO, NAME_BAR>>, <<TFINAL>> }

WorkflowTypes == {"MCTDH", "DD-vMCG"}

DbFolders == {<<>>, <<"db">>}

RDCHECK == <<"r", "d", "c", "h", "e", "c", "k">>

RDGPOP == <<"r", "d", "g", "p", "o", "p">>

DDTRAJ == <<"d", "d", "t", "r", "a", "j">>

RDCHECK_ETOT == RDCHECK \o <<" ", "e", "t", "o", "t">>

RDCHECKX == RDCHECK \o <<"x">>

NONEXISTENT == <<"n", "o", "t", "o", "o", "l">>

RDGPOP_W == RDGPOP \o <<" ", "-", "w">>

ToolLists ==
    { <<RDCHECK_ETOT, NONEXISTENT, RDGPOP>>,
      <<RDCHECKX, DDTRAJ>>,
      <<RDGPOP_W>> }

\* an analysis executable exits 0 ("ok"), exits nonzero ("nonzero"), cannot be
\* spawned ("missing"), or exits 0 while its output file cannot be written ("nowrite")
Executables == {RDCHECK, RDCHECKX, RDGPOP, DDTRAJ}

AllOk == [e \in Executables |-> "ok"]

ToolEnvs ==
    { AllOk,
      [AllOk EXCEPT ![RDCHECK] = "nonzero", ![DDTRAJ] = "missing", ![RDCHECKX] = "nowrite"],
      [AllOk EXCEPT ![RDGPOP] = "missing", ![RDCHECKX] = "nonzero"] }

\* params of run_analysis_with_params; <<>> stands for the plain run_analysis call
ParamSets == { <<>>, <<[rdgpop_nz |-> <<"3">>, rdgpop_dof |-> <<>>]>> }

ExpectedFiles == <<"log", "output", "auto", "psi">>

FileSets == { {"log", "psi"} }

ReturnCodes == {0, 1}

-----------------------------------------------------------------------------
(* QuanticsCalculation *)

EmptyMap == [k \in {} |-> "x"]

MapPut(m, k, v) == [x \in (DOMAIN m) \cup {k} |-> IF x = k THEN v ELSE m[x]]

\* the results dict: a key is absent when its field is <<>>
EmptyResults ==
    [output_directory |-> <<>>, output_name |-> <<>>, output_files |-> <<>>,
     analysis |-> <<>>, analysis_with_params |-> <<>>]

QuanticsCalculation(name) ==
    [name |-> name, inp_file |-> <<>>, op_file |-> <<>>, db_folder |-> <<>>,
     workflow_type |-> "MCTDH", working_directory |-> <<>>, status |-> "created",
     start_time |-> <<>>, end_time |-> <<>>, results |-> EmptyResults]

\* str(path) and datetime.isoformat() for an optional field
StrOpt(p) == IF p = <<>> THEN <<>> ELSE <<[str |-> p[1].path]>>

IsoOpt(t) == IF t = <<>> THEN <<>> ELSE <<[iso |-> t[1]]>>

to_dict(calc) ==
    [name |-> calc.name,
     inp_file |-> StrOpt(calc.inp_file),
     op_file |-> StrOpt(calc.op_file),
     db_folder |-> StrOpt(calc.db_folder),
     workflow_type |-> calc.workflow_type,
     working_directory |-> StrOpt(calc.working_directory),
     status |-> calc.status,
     start_time |-> IsoOpt(calc.start_time),
     end_time |-> IsoOpt(calc.end_time),
     results |-> calc.results]

PathOpt(s) == IF s = <<>> THEN <<>> ELSE <<[path |-> s[1].str]>>

FromIsoOpt(s) == IF s = <<>> THEN <<>> ELSE <<s[1].iso>>

\* a record that was left running is loaded as a failed one
from_dict_RecoversRunning(data) ==
    [QuanticsCalculation(data.name) EXCEPT
        !.inp_file = PathOpt(data.inp_file),
        !.op_file = PathOpt(data.op_file),
        !.db_folder = PathOpt(data.db_folder),
        !.workflow_type = data.workflow_type,
        !.working_directory = PathOpt(data.working_directory),
        !.status = IF data.status = "running" THEN "failed" ELSE data.status,
        !.start_time = FromIsoOpt(data.start_time),
        !.end_time = FromIsoOpt(data.end_time),
        !.results = data.results]

from_dict(data) ==
    [QuanticsCalculation(data.name) EXCEPT
        !.inp_file = PathOpt(data.inp_file),
        !.op_file = PathOpt(data.op_file),
        !.db_folder = PathOpt(data.db_folder),
        !.workflow_type = data.workflow_type,
        !.working_directory = PathOpt(data.working_directory),
        !.status = data.status,
        !.start_time = FromIsoOpt(data.start_time),
        !.end_time = FromIsoOpt(data.end_time),
        !.results = data.results]

-----------------------------------------------------------------------------
(* Registry persistence *)

\* the JSON document _save_calculations writes for a registry
Serialise(reg) == <<[n \in DOMAIN reg |-> to_dict(reg[n])]>>

\* the keys from_dict reads; a record without one of them raises KeyError
RequiredKeys ==
    {"name", "inp_file", "op_file", "db_folder", "workflow_type", "working_directory",
     "status", "start_time", "end_time", "results"}

\* the file is <<document>> when json.load can parse it, and the document
\* followed by what makes it unparseable otherwise
JsonLoads(file) == Len(file) = 1

Complete(data) == RequiredKeys \subseteq DOMAIN data

\* the records that cannot be read are skipped and the others are loaded
_load_calculations_SkipsBad(file) ==
    IF file = <<>> \/ ~JsonLoads(file) THEN EmptyMap
    ELSE [n \in {m \in DOMAIN file[1] : Complete(file[1][m])} |-> from_dict(file[1][n])]

\* lines 81-94: no file, or any exception while reading it, gives the empty registry
_load_calculations(file) ==
    IF file = <<>> THEN EmptyMap
    ELSE IF ~JsonLoads(file) \/ \E n \in DOMAIN file[1] : ~Complete(file[1][n])
    THEN EmptyMap
    ELSE [n \in DOMAIN file[1] |-> from_dict(file[1][n])]

-----------------------------------------------------------------------------
(* Callers *)

Idle == [op |-> "none"]

NoRet == [op |-> "none"]

\* the contents of a freshly made working directory
EmptyDir == [input |-> <<>>, db |-> FALSE, out |-> EmptyMap]

Ticks == {d \in {0, 1} : clock + d <= MaxClock}

\* AiidaWorkerThread.__init__: nothing monitored, run() not started.  `todo` is
\* what is left of the list the for loop of run() iterates over and `finished`
\* the processes for which calculation_finished has been emitted.
NoWorker == [monitoring_processes |-> {}, should_stop |-> FALSE, at |-> "created",
             todo |-> {}, finished |-> <<>>]

\* no integration layer has been constructed: an empty platform database
NoProfile == [codes |-> {}, nodes |-> <<>>]

Init ==
    /\ quantics_code = <<>>
    /\ profile = NoProfile
    /\ worker = NoWorker
    /\ calculations = _load_calculations(<<>>)
    /\ config_file = <<>>
    /\ fs = EmptyMap
    /\ clock = 0
    /\ pc = [t \in AllCallers |-> "idle"]
    /\ frame = [t \in AllCallers |-> Idle]
    /\ ret = [t \in AllCallers |-> NoRet]
    /\ procs = [n \in Names |-> 0]
    /\ effects = {}
    /\ toolenv \in ToolEnvs
    /\ everCompleted = [n \in Names |-> FALSE]
    /\ ncalls = 0

-----------------------------------------------------------------------------
(* create_calculation *)

WorkDir(name, ts) == [path |-> <<name, ts>>]

\* the duplicate-name check left out
NameExists_Never(name) == FALSE

\* line 111
NameExists(name) == name \in DOMAIN calculations

create_calculation(t, name, workflow_type, db_folder, d) ==
    /\ pc[t] = "idle"
    /\ ncalls < MaxCalls
    /\ ncalls' = ncalls + 1
    /\ IF NameExists(name)
       THEN /\ ret' = [ret EXCEPT ![t] = [op |-> "create", name |-> name,
                                          raised |-> "ValueError"]]
            /\ effects' = {}
            /\ UNCHANGED <<calculations, config_file, fs, clock, everCompleted, toolenv, quantics_code, profile, worker>>
       ELSE LET wd == WorkDir(name, clock + d)
                calc == [QuanticsCalculation(name) EXCEPT
                            !.inp_file = <<[path |-> "inp"]>>,
                            !.op_file = <<[path |-> "op"]>>,
                            !.workflow_type = workflow_type,
                            !.db_folder =
                                IF workflow_type = "DD-vMCG" /\ db_folder # <<>>
                                THEN <<[path |-> db_folder[1]]>> ELSE <<>>,
                            !.working_directory = <<wd>>]
                reg == MapPut(calculations, name, calc)
            IN  /\ clock' = clock + d
                /\ fs' = IF wd \in DOMAIN fs THEN fs ELSE MapPut(fs, wd, EmptyDir)
                /\ calculations' = reg
                /\ config_file' = Serialise(reg)
                /\ everCompleted' = [everCompleted EXCEPT ![name] = FALSE]
                /\ effects' = {<<"mkdir", wd>>, <<"save">>}
                /\ ret' = [ret EXCEPT ![t] = [op |-> "create", name |-> name,
                                              raised |-> "none"]]
    /\ UNCHANGED <<pc, frame, procs, toolenv, quantics_code, profile, worker>>

-----------------------------------------------------------------------------
(* Reading directives from an .inp file *)

PREFIX_NAME == <<"n", "a", "m", "e">>

PREFIX_OPNAME == <<"o", "p", "n", "a", "m", "e">>

\* the value of the first line that starts with `key` and contains "=", else None
RECURSIVE FirstDirective(_, _)
FirstDirective(lines, key) ==
    IF lines = <<>> THEN <<>>
    ELSE LET line == Strip(Head(lines))
         IN  IF StartsWith(line, key) /\ Contains(line, "=")
             THEN <<Strip(SplitOn(line, "=", <<>>)[2])>>
             ELSE FirstDirective(Tail(lines), key)

\* `file` is <<>> when the file cannot be opened (the exception is caught)
_get_output_name_from_inp(file) ==
    IF file = <<>> THEN <<>> ELSE FirstDirective(file[1], PREFIX_NAME)

_get_opname_from_inp(file) ==
    IF file = <<>> THEN <<>> ELSE FirstDirective(file[1], PREFIX_OPNAME)

\* Python truthiness of an optional string: None and "" are false
Truthy(s) == s # <<>> /\ s[1] # <<>>

-----------------------------------------------------------------------------
(* prepare_calculation *)

DOT_OP == <<".", "o", "p">>

OPERATOR_OP == <<"o", "p", "e", "r", "a", "t", "o", "r">> \o DOT_OP

\* what the user's files look like when prepare_calculation runs
Envs ==
    {[inp |-> <<c>>, op |-> TRUE, db |-> TRUE] : c \in InpContents}
    \cup {[inp |-> <<>>, op |-> TRUE, db |-> TRUE],
          [inp |-> <<<<TFINAL>>>>, op |-> FALSE, db |-> TRUE],
          [inp |-> <<<<TFINAL>>>>, op |-> TRUE, db |-> FALSE]}

OPNAMES_ZZZ == <<"o", "p", "n", "a", "m", "e", "s", " ", "=", " ", "z", "z", "z">>

OPNAME_TIGHT == <<" ", " ", "o", "p", "n", "a", "m", "e", "=", "f", "o", "o", " ">>

NAMES_ZZZ == <<"n", "a", "m", "e", "s", " ", "=", " ", "z", "z", "z">>

\* lines of an .inp file: the two directives, each with a longer keyword that
\* starts with the same letters, a directive without blanks around "=", and a
\* line holding neither
InpLines == {OPNAME_FOO, OPNAMES_ZZZ, OPNAME_TIGHT, NAME_BAR, NAMES_ZZZ, TFINAL}

MaxInpLines == 2

InpTexts == UNION {[1..n -> InpLines] : n \in 1..MaxInpLines}

InpEnvs == {[inp |-> <<c>>, op |-> TRUE, db |-> TRUE] : c \in InpTexts}

\* the contents that matter to the discovery of the output directory
NameLines == {NAME_BAR, NAMES_ZZZ, TFINAL}

NameEnvs ==
    {[inp |-> <<c>>, op |-> TRUE, db |-> TRUE] :
        c \in UNION {[1..n -> NameLines] : n \in 1..MaxInpLines}}

\* a failed copy of the operator file or DB folder goes unnoticed
prepare_calculation_SwallowsCopy(calc, dir, env) ==
    IF env.inp = <<>>
    THEN [ok |-> FALSE, dir |-> dir, io |-> {}]
    ELSE [ok |-> TRUE, dir |-> [dir EXCEPT !.input = env.inp], io |-> {<<"copy_inp">>}]

\* the DB folder is copied over a db_data directory that is already there
prepare_calculation_OverwritesDb(calc, dir, env) ==
    LET opname == _get_opname_from_inp(env.inp)
        op_filename == IF Truthy(opname) THEN opname[1] \o DOT_OP ELSE OPERATOR_OP
        d1 == [dir EXCEPT !.input = env.inp]
        wantDb == calc.workflow_type = "DD-vMCG" /\ calc.db_folder # <<>>
    IN  IF env.inp = <<>>
        THEN [ok |-> FALSE, dir |-> dir, io |-> {}]
        ELSE IF ~env.op \/ (wantDb /\ ~env.db)
        THEN [ok |-> FALSE, dir |-> d1, io |-> {<<"copy_inp">>}]
        ELSE [ok |-> TRUE, dir |-> [d1 EXCEPT !.db = @ \/ wantDb],
              io |-> {<<"copy_inp">>, <<"copy_op", op_filename>>}]

\* [ok, dir, io]: the return value, the working directory afterwards, the copies made
prepare_calculation(calc, dir, env) ==
    LET opname == _get_opname_from_inp(env.inp)
        op_filename == IF Truthy(opname) THEN opname[1] \o DOT_OP ELSE OPERATOR_OP
        d1 == [dir EXCEPT !.input = env.inp]
        d3 == [d1 EXCEPT !.db = TRUE]
        wantDb == calc.workflow_type = "DD-vMCG" /\ calc.db_folder # <<>>
    IN  IF env.inp = <<>>
        THEN [ok |-> FALSE, dir |-> dir, io |-> {}]
        ELSE IF ~env.op
        THEN [ok |-> FALSE, dir |-> d1, io |-> {<<"copy_inp">>}]
        ELSE IF ~wantDb
        THEN [ok |-> TRUE, dir |-> d1, io |-> {<<"copy_inp">>, <<"copy_op", op_filename>>}]
        ELSE IF dir.db \/ ~env.db
        THEN [ok |-> FALSE, dir |-> d1, io |-> {<<"copy_inp">>, <<"copy_op", op_filename>>}]
        ELSE [ok |-> TRUE, dir |-> d3,
              io |-> {<<"copy_inp">>, <<"copy_op", op_filename>>, <<"copy_db">>}]

\* lines 132-158: prepare_calculation called on its own
PrepareCall(t, name, env) ==
    /\ pc[t] = "idle"
    /\ name \in DOMAIN calculations
    /\ ncalls < MaxCalls
    /\ ncalls' = ncalls + 1
    /\ LET calc == calculations[name]
           wd == calc.working_directory[1]
           prep == prepare_calculation(calc, fs[wd], env)
       IN  /\ fs' = [fs EXCEPT ![wd] = prep.dir]
           /\ effects' = prep.io
           /\ ret' = [ret EXCEPT ![t] = [op |-> "prepare", name |-> name,
                                         ok |-> prep.ok, inp |-> env.inp]]
    /\ UNCHANGED <<calculations, config_file, clock, pc, frame, procs, everCompleted,
                   toolenv, quantics_code, profile, worker>>

-----------------------------------------------------------------------------
(* run_calculation *)

\* `stage` is where the call ended ("check", "prepare", "spawn" or "exit") and
\* `code` the exit code of the subprocess, <<>> when none was observed
RunReturn(t, name, ok, stage, code) ==
    /\ ret' = [ret EXCEPT ![t] = [op |-> "run", name |-> name, ok |-> ok,
                                  stage |-> stage, code |-> code]]
    /\ pc' = [pc EXCEPT ![t] = "idle"]
    /\ frame' = [frame EXCEPT ![t] = Idle]

\* the running check left out
IsRunning_Never(calc) == FALSE

\* a record that already has an end_time is taken for one that is not running
IsRunning_UnlessEnded(calc) == calc.status = "running" /\ calc.end_time = <<>>

IsRunning(calc) == calc.status = "running"

\* lines 164-170: the running check and the preparation step
RunBegin(t, name, env) ==
    /\ pc[t] = "idle"
    /\ name \in DOMAIN calculations
    /\ ncalls < MaxCalls
    /\ ncalls' = ncalls + 1
    /\ LET calc == calculations[name]
           wd == calc.working_directory[1]
           prep == prepare_calculation(calc, fs[wd], env)
       IN  IF IsRunning(calc)
           THEN /\ RunReturn(t, name, FALSE, "check", <<>>)
                /\ effects' = {}
                /\ UNCHANGED fs
           ELSE /\ fs' = [fs EXCEPT ![wd] = prep.dir]
                /\ effects' = prep.io
                /\ IF prep.ok
                   THEN /\ pc' = [pc EXCEPT ![t] = "start"]
                        /\ frame' = [frame EXCEPT ![t] = [op |-> "run", name |-> name]]
                        /\ UNCHANGED ret
                   ELSE RunReturn(t, name, FALSE, "prepare", <<>>)
    /\ UNCHANGED <<calculations, config_file, clock, procs, everCompleted, toolenv, quantics_code, profile, worker>>

\* the status is not set before the executable is spawned
MarkRunning_NoStatus(calc, now) == [calc EXCEPT !.start_time = <<now>>]

\* start_time is not recorded
MarkRunning_NoStart(calc, now) == [calc EXCEPT !.status = "running"]

\* a new cycle starts from a clean record
MarkRunning_Resets(calc, now) ==
    [calc EXCEPT !.status = "running", !.start_time = <<now>>, !.end_time = <<>>,
                 !.results = EmptyResults]

\* lines 173-175: status running, start_time, save
MarkRunning(calc, now) == [calc EXCEPT !.status = "running", !.start_time = <<now>>]

RunStart(t, d) ==
    /\ pc[t] = "start"
    /\ LET name == frame[t].name
           reg == [calculations EXCEPT ![name] = MarkRunning(@, clock + d)]
       IN  /\ calculations' = reg
           /\ config_file' = Serialise(reg)
    /\ clock' = clock + d
    /\ effects' = {<<"save">>}
    /\ pc' = [pc EXCEPT ![t] = "spawn"]
    /\ UNCHANGED <<fs, frame, ret, procs, everCompleted, ncalls, toolenv, quantics_code, profile, worker>>

\* the except branch forgets to mark the calculation failed
RunExcept_KeepsStatus(calc, now) == [calc EXCEPT !.end_time = <<now>>]

\* lines 211-216: the except branch
RunExcept(calc, now) == [calc EXCEPT !.status = "failed", !.end_time = <<now>>]

\* lines 185-192: open quantics.log and spawn `<executable> -mnd input.inp`
RunSpawn(t, spawn_ok, d) ==
    /\ pc[t] = "spawn"
    /\ LET name == frame[t].name
           wd == calculations[name].working_directory[1]
       IN  /\ IF spawn_ok
              THEN /\ procs' = [procs EXCEPT ![name] = @ + 1]
                   /\ pc' = [pc EXCEPT ![t] = "wait"]
                   /\ effects' = {<<"open_log">>, <<"spawn_quantics", name>>}
                   /\ UNCHANGED <<calculations, config_file, clock, frame, ret>>
              ELSE LET reg == [calculations EXCEPT ![name] = RunExcept(@, clock + d)]
                   IN  /\ calculations' = reg
                       /\ config_file' = Serialise(reg)
                       /\ clock' = clock + d
                       /\ effects' = {<<"open_log">>, <<"save">>}
                       /\ RunReturn(t, name, FALSE, "spawn", <<>>)
                       /\ UNCHANGED procs
    /\ UNCHANGED <<fs, everCompleted, ncalls, toolenv, quantics_code, profile, worker>>

\* the output name is recorded whether or not the directory exists
_check_output_files_NoExistsTest(calc, dir) ==
    LET parsed == _get_output_name_from_inp(dir.input)
        output_name == IF Truthy(parsed) THEN parsed[1] ELSE calc.name
        output_dir == [str |-> <<calc.working_directory[1].path, output_name>>]
    IN  [calc EXCEPT !.results.output_directory = <<output_dir>>,
                     !.results.output_name = <<output_name>>,
                     !.results.output_files =
                        <<IF output_name \in DOMAIN dir.out
                          THEN SelectSeq(ExpectedFiles, LAMBDA f : f \in dir.out[output_name])
                          ELSE <<>> >>]

\* lines 218-241
_check_output_files(calc, dir) ==
    LET parsed == _get_output_name_from_inp(dir.input)
        output_name == IF Truthy(parsed) THEN parsed[1] ELSE calc.name
        output_dir == [str |-> <<calc.working_directory[1].path, output_name>>]
        found_files == SelectSeq(ExpectedFiles, LAMBDA f : f \in dir.out[output_name])
    IN  IF output_name \in DOMAIN dir.out
        THEN [calc EXCEPT !.results.output_directory = <<output_dir>>,
                          !.results.output_name = <<output_name>>,
                          !.results.output_files = <<found_files>>]
        ELSE calc

\* the return code is not looked at
Finish_AnyCode(calc, returncode, now, dir) ==
    _check_output_files([calc EXCEPT !.end_time = <<now>>, !.status = "completed"], dir)

\* lines 194-206: end_time and the status the return code decides
Finish(calc, returncode, now, dir) ==
    LET c1 == [calc EXCEPT !.end_time = <<now>>]
    IN  IF returncode = 0
        THEN _check_output_files([c1 EXCEPT !.status = "completed"], dir)
        ELSE [c1 EXCEPT !.status = "failed"]

\* the directories the executable may have written when it exits
OutDirChoices(name) == {<<>>, <<BAR>>, <<name>>}

AllOutDirChoices == UNION {OutDirChoices(n) : n \in Names}

\* lines 194-209: the subprocess has exited with `returncode`
RunExit(t, returncode, made, files, d) ==
    /\ pc[t] = "wait"
    /\ LET name == frame[t].name
           calc == calculations[name]
           wd == calc.working_directory[1]
           dir == IF made = <<>> THEN fs[wd]
                  ELSE [fs[wd] EXCEPT !.out = MapPut(@, made[1], files)]
           done == Finish(calc, returncode, clock + d, dir)
           reg == [calculations EXCEPT ![name] = done]
       IN  /\ made \in OutDirChoices(name)
           /\ fs' = [fs EXCEPT ![wd] = dir]
           /\ calculations' = reg
           /\ config_file' = Serialise(reg)
           /\ clock' = clock + d
           /\ procs' = [procs EXCEPT ![name] = @ - 1]
           /\ everCompleted' =
                 [everCompleted EXCEPT ![name] = @ \/ done.status = "completed"]
           /\ effects' = {<<"save">>}
           /\ RunReturn(t, name, done.status = "completed", "exit", <<returncode>>)
    /\ UNCHANGED <<ncalls, toolenv, quantics_code, profile, worker>>

-----------------------------------------------------------------------------
(* run_analysis and run_analysis_with_params *)

\* `ran` tells whether the loop over the tools was entered and `attempted` holds
\* the tools for which subprocess.run was called
AnalysisReturn(t, name, params, tools, map, ran, attempted) ==
    /\ ret' = [ret EXCEPT ![t] = [op |-> "analysis", name |-> name, params |-> params,
                                  tools |-> tools, map |-> map, ran |-> ran,
                                  attempted |-> attempted]]
    /\ pc' = [pc EXCEPT ![t] = "idle"]
    /\ frame' = [frame EXCEPT ![t] = Idle]

\* lines 275-282 / 349-356: the cached output name, else the .inp directive, else calc.name
ResolveOutputName(calc, dir) ==
    LET cached == calc.results.output_name
        parsed == IF Truthy(cached) THEN cached ELSE _get_output_name_from_inp(dir.input)
    IN  IF Truthy(parsed) THEN parsed[1] ELSE calc.name

\* the status check left out
AnalysisAllowed_Always(calc) == TRUE

\* the status check lets a failed calculation through
AnalysisAllowed_NotCreated(calc) == calc.status # "created"

\* lines 271 / 345: analysis is refused unless the calculation is completed
AnalysisAllowed(calc) == calc.status = "completed"

\* lines 271-287 / 345-362: the checks before the loop over the tools
AnalysisBegin(t, name, tools, params) ==
    /\ pc[t] = "idle"
    /\ name \in DOMAIN calculations
    /\ ncalls < MaxCalls
    /\ ncalls' = ncalls + 1
    /\ effects' = {}
    /\ LET calc == calculations[name]
           dir == fs[calc.working_directory[1]]
           output_name == ResolveOutputName(calc, dir)
       IN  IF ~AnalysisAllowed(calc) \/ output_name \notin DOMAIN dir.out
           THEN AnalysisReturn(t, name, params, tools, EmptyMap, FALSE, {})
           ELSE /\ pc' = [pc EXCEPT ![t] = "tools"]
                /\ frame' = [frame EXCEPT ![t] =
                      [op |-> "analysis", name |-> name, params |-> params,
                       tools |-> tools, i |-> 1, results |-> EmptyMap,
                       output_name |-> output_name, attempted |-> {},
                       active |-> {}]]
                /\ UNCHANGED ret
    /\ UNCHANGED <<calculations, config_file, fs, clock, procs, everCompleted, toolenv, quantics_code, profile, worker>>

DASH_W == <<"-", "w">>

\* rdcheck is matched by equality instead of by prefix
Command_RdcheckExact(tool) ==
    IF tool = RDCHECK THEN << <<RDCHECK>> >>
    ELSE IF tool = RDGPOP THEN << <<RDGPOP, <<"-", "w">> >> >>
    ELSE IF tool = DDTRAJ THEN << <<DDTRAJ>> >>
    ELSE <<>>

\* lines 293-306 / 368-381: the command of a tool, <<>> for an unknown tool
Command(tool) ==
    IF StartsWith(tool, RDCHECK) THEN <<SplitWs(tool, <<>>)>>
    ELSE IF tool = RDGPOP THEN << <<RDGPOP, DASH_W>> >>
    ELSE IF tool = DDTRAJ THEN << <<DDTRAJ>> >>
    ELSE <<>>

Get(opt, default) == IF opt = <<>> THEN default ELSE opt[1]

\* lines 309-316 / 384-410: the answers fed to the tool's standard input, <<>> for none
InputText(tool, params) ==
    IF tool # RDGPOP THEN <<>>
    ELSE IF params = <<>> THEN << <<"2">>, <<"1">> >>
    ELSE <<Get(params[1].rdgpop_nz, <<"2">>), Get(params[1].rdgpop_dof, <<"1">>)>>

ResultStdout == [tag |-> "stdout"]

ResultError == [tag |-> "Error: "]

ResultException == [tag |-> "Exception: "]

\* a tool that failed ends the loop
NextTool_StopOnFailure(f, failed) == IF failed THEN Len(f.tools) + 1 ELSE f.i + 1

\* lines 289-333 / 364-436: the for loop goes on to the next tool whether this
\* one was skipped, failed or succeeded (the except clause is inside the loop)
NextTool(f, failed) == f.i + 1

\* the tool is started without waiting for it (Popen instead of run)
AnalysisTool_NoWait(t) ==
    /\ pc[t] = "tools"
    /\ frame[t].i <= Len(frame[t].tools)
    /\ LET f == frame[t]
           tool == f.tools[f.i]
           cmd == Command(tool)
       IN  /\ frame' = [frame EXCEPT ![t].i = @ + 1,
                                     ![t].attempted = @ \cup {tool},
                                     ![t].active = IF cmd = <<>> THEN @ ELSE @ \cup {f.i}]
           /\ effects' = IF cmd = <<>> THEN {}
                         ELSE {<<"spawn_tool", cmd[1], InputText(tool, f.params)>>}
    /\ UNCHANGED <<calculations, config_file, fs, clock, pc, ret, procs, everCompleted,
                   ncalls, toolenv, quantics_code, profile, worker>>

\* lines 289-319 / 364-419: one iteration of the loop up to subprocess.run: skip,
\* fail to spawn, or spawn; `active` holds the tools whose subprocess has not exited
AnalysisTool(t) ==
    /\ pc[t] = "tools"
    /\ frame[t].i <= Len(frame[t].tools)
    /\ LET f == frame[t]
           tool == f.tools[f.i]
           cmd == Command(tool)
           spawn_ok == toolenv[cmd[1][1]] # "missing"
       IN  IF cmd = <<>>
           THEN /\ frame' = [frame EXCEPT ![t].i = NextTool(f, FALSE)]
                /\ effects' = {}
                /\ UNCHANGED pc
           ELSE IF spawn_ok
           THEN /\ pc' = [pc EXCEPT ![t] = "toolwait"]
                /\ effects' = {<<"spawn_tool", cmd[1], InputText(tool, f.params)>>}
                /\ frame' = [frame EXCEPT ![t].attempted = @ \cup {tool},
                                          ![t].active = @ \cup {f.i}]
           ELSE /\ frame' = [frame EXCEPT ![t].i = NextTool(f, TRUE),
                                          ![t].attempted = @ \cup {tool},
                                          ![t].results = MapPut(@, tool, ResultException)]
                /\ effects' = {}
                /\ UNCHANGED pc
    /\ UNCHANGED <<calculations, config_file, fs, clock, ret, procs, everCompleted, ncalls, toolenv, quantics_code, profile, worker>>

OUTPUT_TXT == <<"_", "o", "u", "t", "p", "u", "t", ".", "t", "x", "t">>

\* lines 318-333 / 417-436: the tool's subprocess has exited with `returncode`
ToolExit(t) ==
    /\ pc[t] = "toolwait"
    /\ LET f == frame[t]
           tool == f.tools[f.i]
           outcome == toolenv[Command(tool)[1][1]]
           returncode == IF outcome = "nonzero" THEN 1 ELSE 0
           write_ok == outcome # "nowrite"
           output_file == ReplaceSpaces(tool) \o OUTPUT_TXT
           result == IF returncode # 0 THEN ResultError
                     ELSE IF write_ok THEN ResultStdout ELSE ResultException
       IN  /\ frame' = [frame EXCEPT ![t].i = NextTool(f, result # ResultStdout),
                                     ![t].active = @ \ {f.i},
                                     ![t].results = MapPut(@, tool, result)]
           /\ effects' = IF returncode = 0 /\ write_ok
                         THEN {<<"write_output", output_file>>} ELSE {}
    /\ pc' = [pc EXCEPT ![t] = "tools"]
    /\ UNCHANGED <<calculations, config_file, fs, clock, ret, procs, everCompleted, ncalls, toolenv, quantics_code, profile, worker>>

\* the batch is merged into the mapping stored before
StoreAnalysis_Merges(calc, params, results) ==
    LET old == IF params = <<>> THEN calc.results.analysis
               ELSE calc.results.analysis_with_params
        merged == IF old = <<>> THEN results
                  ELSE [k \in (DOMAIN old[1]) \cup (DOMAIN results) |->
                           IF k \in DOMAIN results THEN results[k] ELSE old[1][k]]
    IN  IF params = <<>>
        THEN [calc EXCEPT !.results.analysis = <<merged>>]
        ELSE [calc EXCEPT !.results.analysis_with_params = <<merged>>]

\* lines 335-337 / 438-440: where the batch is stored
StoreAnalysis(calc, params, results) ==
    IF params = <<>>
    THEN [calc EXCEPT !.results.analysis = <<results>>]
    ELSE [calc EXCEPT !.results.analysis_with_params = <<results>>]

\* the batch is stored in memory and the registry file is left as it was
AnalysisEnd_NoSave(t) ==
    /\ pc[t] = "tools"
    /\ frame[t].i > Len(frame[t].tools)
    /\ LET f == frame[t]
       IN  /\ calculations' =
                 [calculations EXCEPT ![f.name] = StoreAnalysis(@, f.params, f.results)]
           /\ AnalysisReturn(t, f.name, f.params, f.tools, f.results, TRUE, f.attempted)
    /\ effects' = {}
    /\ UNCHANGED <<config_file, fs, clock, procs, everCompleted, ncalls, toolenv, quantics_code, profile, worker>>

\* lines 335-339 / 438-442: after the loop
AnalysisEnd(t) ==
    /\ pc[t] = "tools"
    /\ frame[t].i > Len(frame[t].tools)
    /\ LET f == frame[t]
           reg == [calculations EXCEPT ![f.name] = StoreAnalysis(@, f.params, f.results)]
       IN  /\ calculations' = reg
           /\ config_file' = Serialise(reg)
           /\ AnalysisReturn(t, f.name, f.params, f.tools, f.results, TRUE, f.attempted)
    /\ effects' = {<<"save">>}
    /\ UNCHANGED <<fs, clock, procs, everCompleted, ncalls, toolenv, quantics_code, profile, worker>>

-----------------------------------------------------------------------------
(* The owning process ends and a new runner is constructed on the same     *)
(* base directory: LocalQuanticsRunner.__init__ loads the registry file.   *)

Restart ==
    /\ calculations' = _load_calculations(config_file)
    /\ pc' = [t \in AllCallers |-> "idle"]
    /\ frame' = [t \in AllCallers |-> Idle]
    /\ ret' = [t \in AllCallers |-> NoRet]
    /\ procs' = [n \in Names |-> 0]
    /\ effects' = {<<"load">>}
    /\ UNCHANGED <<config_file, fs, clock, everCompleted, ncalls, toolenv, quantics_code, profile, worker>>

Next ==
    \/ \E t \in SeqCallers, n \in Names, w \in WorkflowTypes, db \in DbFolders, d \in Ticks :
          create_calculation(t, n, w, db, d)
    \/ \E t \in SeqCallers, n \in Names, env \in Envs : RunBegin(t, n, env)
    \/ \E t \in SeqCallers, d \in Ticks : RunStart(t, d)
    \/ \E t \in SeqCallers, ok \in BOOLEAN, d \in Ticks : RunSpawn(t, ok, d)
    \/ \E t \in SeqCallers, rc \in ReturnCodes, made \in AllOutDirChoices,
          files \in FileSets, d \in Ticks : RunExit(t, rc, made, files, d)
    \/ \E t \in SeqCallers, n \in Names, tools \in ToolLists, params \in ParamSets :
          AnalysisBegin(t, n, tools, params)
    \/ \E t \in SeqCallers : AnalysisTool(t)
    \/ \E t \in SeqCallers : ToolExit(t)
    \/ \E t \in SeqCallers : AnalysisEnd(t)
    \/ Restart

Spec == Init /\ [][Next]_vars

\* prepare_calculation called on its own over many .inp contents
NextPrepare ==
    \/ \E t \in SeqCallers, n \in Names, w \in WorkflowTypes, db \in DbFolders, d \in Ticks :
          create_calculation(t, n, w, db, d)
    \/ \E t \in SeqCallers, n \in Names, env \in InpEnvs : PrepareCall(t, n, env)

SpecPrepare == Init /\ [][NextPrepare]_vars

\* creating and running calculations over many .inp contents
NextDiscovery ==
    \/ \E t \in SeqCallers, n \in Names, w \in WorkflowTypes, db \in DbFolders, d \in Ticks :
          create_calculation(t, n, w, db, d)
    \/ \E t \in SeqCallers, n \in Names, env \in NameEnvs : RunBegin(t, n, env)
    \/ \E t \in SeqCallers, d \in Ticks : RunStart(t, d)
    \/ \E t \in SeqCallers, ok \in BOOLEAN, d \in Ticks : RunSpawn(t, ok, d)
    \/ \E t \in SeqCallers, rc \in ReturnCodes, made \in AllOutDirChoices,
          files \in FileSets, d \in Ticks : RunExit(t, rc, made, files, d)

SpecDiscovery == Init /\ [][NextDiscovery]_vars

\* the user's files of the concurrent calls: a complete set
RaceEnvs == {[inp |-> <<<<TFINAL>>>>, op |-> TRUE, db |-> TRUE]}

\* two threads of one process calling create_calculation and run_calculation on
\* the same runner object; a step is one stretch of a call between two points
\* where the interpreter may switch threads (the file copies of the
\* preparation, the registry write, the spawn, the wait)
NextConcurrent ==
    \/ \E t \in AllCallers, n \in Names, w \in WorkflowTypes, db \in DbFolders, d \in Ticks :
          create_calculation(t, n, w, db, d)
    \/ \E t \in AllCallers, n \in Names, env \in RaceEnvs : RunBegin(t, n, env)
    \/ \E t \in AllCallers, d \in Ticks : RunStart(t, d)
    \/ \E t \in AllCallers, ok \in BOOLEAN, d \in Ticks : RunSpawn(t, ok, d)
    \/ \E t \in AllCallers, rc \in ReturnCodes, made \in AllOutDirChoices,
          files \in FileSets, d \in Ticks : RunExit(t, rc, made, files, d)

\* no analysis is run here: one tool environment is enough
InitConcurrent == Init /\ toolenv = AllOk

SpecConcurrent == InitConcurrent /\ [][NextConcurrent]_vars

\* a calculation name that only a hand-edited registry file holds
NAME_OTHER == <<"x">>

\* what can happen to the registry file outside the runner
Damages == {"truncated", "key_removed", "partial_record"}

\* the registry file is cut short, a record of it loses its results key, or a
\* record with nothing but a name is added by hand
Damage(kind) ==
    /\ config_file # <<>>
    /\ JsonLoads(config_file)
    /\ \A n \in DOMAIN config_file[1] : Complete(config_file[1][n])
    /\ \A t \in AllCallers : pc[t] = "idle"
    /\ LET doc == config_file[1]
       IN  \/ /\ kind = "truncated"
              /\ config_file' = <<doc, "truncated">>
           \/ /\ kind = "key_removed"
              /\ \E n \in DOMAIN doc :
                    config_file' =
                       <<[doc EXCEPT ![n] =
                             [k \in DOMAIN doc[n] \ {"results"} |-> doc[n][k]]]>>
           \/ /\ kind = "partial_record"
              /\ config_file' = <<MapPut(doc, NAME_OTHER, [name |-> NAME_OTHER])>>
    /\ effects' = {<<"damage", kind>>}
    /\ UNCHANGED <<calculations, fs, clock, pc, frame, ret, procs, everCompleted, ncalls,
                   toolenv, quantics_code, profile, worker>>

\* runners constructed one after another on a base directory whose registry
\* file may be damaged in between
NextRegistry ==
    \/ \E t \in SeqCallers, n \in Names, w \in WorkflowTypes, db \in DbFolders, d \in Ticks :
          create_calculation(t, n, w, db, d)
    \/ \E kind \in Damages : Damage(kind)
    \/ Restart

SpecRegistry == InitConcurrent /\ [][NextRegistry]_vars

-----------------------------------------------------------------------------
(* QuanticsAiidaParser._parse_quantics_output *)

TOTAL_ENERGY == <<"T", "o", "t", "a", "l", " ", "e", "n", "e", "r", "g", "y">>

FINAL_TIME == <<"F", "i", "n", "a", "l", " ", "t", "i", "m", "e">>

CONVERGENCE == <<"C", "o", "n", "v", "e", "r", "g", "e", "n", "c", "e">>

ACHIEVED == <<"a", "c", "h", "i", "e", "v", "e", "d">>

FAILED == <<"f", "a", "i", "l", "e", "d">>

\* `p in s` for strings
ContainsSub(s, p) == \E i \in 1..(Len(s) - Len(p) + 1) : SubSeq(s, i, i + Len(p) - 1) = p

DigitValue ==
    "0" :> 0 @@ "1" :> 1 @@ "2" :> 2 @@ "3" :> 3 @@ "4" :> 4 @@
    "5" :> 5 @@ "6" :> 6 @@ "7" :> 7 @@ "8" :> 8 @@ "9" :> 9

RECURSIVE ToNumber(_, _)
ToNumber(tok, acc) ==
    IF tok = <<>> THEN acc ELSE ToNumber(Tail(tok), 10 * acc + DigitValue[Head(tok)])

\* float(tok) for a token of decimal digits; <<>> stands for ValueError
Float(tok) ==
    IF tok # <<>> /\ \A i \in 1..Len(tok) : tok[i] \in DOMAIN DigitValue
    THEN <<ToNumber(tok, 0)>> ELSE <<>>

\* float(line.split()[-1]); <<>> stands for ValueError or IndexError
LastTokenFloat(line) ==
    LET toks == SplitWs(line, <<>>)
    IN  IF toks = <<>> THEN <<>> ELSE Float(toks[Len(toks)])

\* results = {}: an absent key is <<>>
NoResults == [total_energy |-> <<>>, final_time |-> <<>>, converged |-> <<>>]

\* a key that is already set is left alone
ParseLine_KeepFirst(results, line) ==
    LET value == LastTokenFloat(line)
        r1 == IF ContainsSub(line, TOTAL_ENERGY) /\ value # <<>> /\ results.total_energy = <<>>
              THEN [results EXCEPT !.total_energy = value] ELSE results
        r2 == IF ContainsSub(line, FINAL_TIME) /\ value # <<>> /\ results.final_time = <<>>
              THEN [r1 EXCEPT !.final_time = value] ELSE r1
    IN  IF r2.converged # <<>> THEN r2
        ELSE IF ContainsSub(line, CONVERGENCE) /\ ContainsSub(line, ACHIEVED)
        THEN [r2 EXCEPT !.converged = <<TRUE>>]
        ELSE IF ContainsSub(line, CONVERGENCE) /\ ContainsSub(line, FAILED)
        THEN [r2 EXCEPT !.converged = <<FALSE>>]
        ELSE r2

\* lines 259-279: the body of the loop over the lines
ParseLine(results, line) ==
    LET value == LastTokenFloat(line)
        r1 == IF ContainsSub(line, TOTAL_ENERGY) /\ value # <<>>
              THEN [results EXCEPT !.total_energy = value] ELSE results
        r2 == IF ContainsSub(line, FINAL_TIME) /\ value # <<>>
              THEN [r1 EXCEPT !.final_time = value] ELSE r1
    IN  IF ContainsSub(line, CONVERGENCE) /\ ContainsSub(line, ACHIEVED)
        THEN [r2 EXCEPT !.converged = <<TRUE>>]
        ELSE IF ContainsSub(line, CONVERGENCE) /\ ContainsSub(line, FAILED)
        THEN [r2 EXCEPT !.converged = <<FALSE>>]
        ELSE r2

RECURSIVE ParseLines(_, _)
ParseLines(lines, results) ==
    IF lines = <<>> THEN results
    ELSE ParseLines(Tail(lines), ParseLine(results, Head(lines)))

\* lines 253-281
_parse_quantics_output(stdout_content) ==
    ParseLines(SplitOn(stdout_content, "\n", <<>>), NoResults)

ENERGY_1 == TOTAL_ENERGY \o <<" ", "1">>

ENERGY_2 == TOTAL_ENERGY \o <<" ", "=", " ", "2">>

ENERGY_EV == TOTAL_ENERGY \o <<" ", "3", " ", "e", "V">>

TIME_40 == FINAL_TIME \o <<" ", "4", "0">>

CONV_ACHIEVED == CONVERGENCE \o <<" ">> \o ACHIEVED

CONV_FAILED == CONVERGENCE \o <<" ">> \o FAILED

\* lines of the executable's output: energies that parse, one whose last token
\* is a unit, a final time, and the two convergence verdicts
OutLines == {ENERGY_1, ENERGY_2, ENERGY_EV, TIME_40, CONV_ACHIEVED, CONV_FAILED}

MaxOutLines == 3

RECURSIVE JoinLines(_)
JoinLines(lines) ==
    IF Len(lines) = 1 THEN lines[1]
    ELSE lines[1] \o <<"\n">> \o JoinLines(Tail(lines))

OutTexts == {JoinLines(ls) : ls \in UNION {[1..n -> OutLines] : n \in 1..MaxOutLines}}

\* lines 211-213: the parser has read the content of quantics.out
InitParse ==
    /\ pc = [t \in AllCallers |-> IF t \in SeqCallers THEN "parse" ELSE "idle"]
    /\ \E stdout_content \in OutTexts :
          frame = [t \in AllCallers |->
                      IF t \in SeqCallers
                      THEN [op |-> "parse", stdout_content |-> stdout_content]
                      ELSE Idle]
    /\ quantics_code = <<>>
    /\ profile = NoProfile
    /\ worker = NoWorker
    /\ calculations = EmptyMap
    /\ config_file = <<>>
    /\ fs = EmptyMap
    /\ clock = 0
    /\ ret = [t \in AllCallers |-> NoRet]
    /\ procs = [n \in Names |-> 0]
    /\ effects = {}
    /\ toolenv = AllOk
    /\ everCompleted = [n \in Names |-> FALSE]
    /\ ncalls = 0

\* lines 217-218: results = self._parse_quantics_output(stdout_content)
ParseCall(t) ==
    /\ pc[t] = "parse"
    /\ pc' = [pc EXCEPT ![t] = "idle"]
    /\ frame' = [frame EXCEPT ![t] = Idle]
    /\ ret' = [ret EXCEPT ![t] =
                  [op |-> "parse", text |-> frame[t].stdout_content,
                   results |-> _parse_quantics_output(frame[t].stdout_content)]]
    /\ effects' = {}
    /\ UNCHANGED <<calculations, config_file, fs, clock, procs, everCompleted,
                   ncalls, toolenv, quantics_code, profile, worker>>

NextParse == \E t \in SeqCallers : ParseCall(t)

SpecParse == InitParse /\ [][NextParse]_vars

-----------------------------------------------------------------------------
(* The analysis tools of a workflow type: the two GUIs and the work chain *)

RDCHECK_SPOP == RDCHECK \o <<" ", "s", "p", "o", "p">>

RDCHECK_NATPOP == RDCHECK \o <<" ", "n", "a", "t", "p", "o", "p", " ", "0", " ", "0">>

\* src/src/gui/main_window.py: (tool, description) pairs per workflow type
workflow_analysis_map ==
    [w \in {"MCTDH", "vMCG", "DD-vMCG"} |->
        CASE w = "MCTDH" ->
               << <<RDCHECK_ETOT, "Total energy check">>,
                  <<RDCHECK_SPOP, "Single particle population">>,
                  <<RDCHECK_NATPOP, "Natural potential analysis">>,
                  <<RDGPOP, "Grid population analysis">> >>
          [] w = "vMCG" ->
               << <<RDCHECK_ETOT, "Total energy check">>,
                  <<RDCHECK_SPOP, "Single particle population">> >>
          [] w = "DD-vMCG" ->
               << <<RDCHECK_ETOT, "Total energy check">>,
                  <<RDCHECK_SPOP, "Single particle population">>,
                  <<DDTRAJ, "DD trajectory analysis">> >>]

\* src/quantics_gui_aiida.py: the same attribute of the stand-alone GUI
workflow_analysis_map_standalone ==
    [w \in {"MCTDH", "vMCG", "DD-vMCG"} |->
        CASE w = "MCTDH" ->
               << <<RDCHECK_ETOT, "Total energy check">>,
                  <<RDCHECK_SPOP, "Single particle population">>,
                  <<RDCHECK_NATPOP, "Natural potential analysis">>,
                  <<RDGPOP, "Grid population analysis">> >>
          [] w = "vMCG" ->
               << <<RDCHECK_ETOT, "Total energy check">>,
                  <<RDCHECK_SPOP, "Single particle population">> >>
          [] w = "DD-vMCG" ->
               << <<RDCHECK_ETOT, "Total energy check">>,
                  <<RDCHECK_SPOP, "Single particle population">>,
                  <<DDTRAJ, "DD trajectory analysis">> >>]

\* ddtraj is missing from the DD-vMCG list
_get_analysis_tools_NoDdtraj(workflow_type) ==
    IF workflow_type = "MCTDH"
    THEN <<RDCHECK_ETOT, RDCHECK_SPOP, RDCHECK_NATPOP, RDGPOP>>
    ELSE IF workflow_type \in {"vMCG", "DD-vMCG"} THEN <<RDCHECK_ETOT, RDCHECK_SPOP>>
    ELSE <<>>

\* lines 398-405: tools_map.get(workflow_type, [])
_get_analysis_tools(workflow_type) ==
    IF workflow_type = "MCTDH"
    THEN <<RDCHECK_ETOT, RDCHECK_SPOP, RDCHECK_NATPOP, RDGPOP>>
    ELSE IF workflow_type = "vMCG" THEN <<RDCHECK_ETOT, RDCHECK_SPOP>>
    ELSE IF workflow_type = "DD-vMCG" THEN <<RDCHECK_ETOT, RDCHECK_SPOP, DDTRAJ>>
    ELSE <<>>

-----------------------------------------------------------------------------
(* QuanticsAiidaIntegration.__init__ and _setup_code *)

QUANTICS == <<"q", "u", "a", "n", "t", "i", "c", "s">>

HARTREE_FIXED == <<"q", "u", "a", "n", "t", "i", "c", "s", "-", "h", "a", "r", "t", "r", "e", "e", "-", "f", "i", "x", "e", "d", "@", "h", "a", "r", "t", "r", "e", "e">>

HARTREE_OLD == <<"q", "u", "a", "n", "t", "i", "c", "s", "-", "h", "a", "r", "t", "r", "e", "e", "@", "h", "a", "r", "t", "r", "e", "e">>

LOCALHOST == <<"q", "u", "a", "n", "t", "i", "c", "s", "@", "l", "o", "c", "a", "l", "h", "o", "s", "t">>

\* installed codes: label and computer
CodeLocal == [label |-> QUANTICS, computer |-> <<"l", "o", "c", "a", "l", "h", "o", "s", "t">>]

CodeFixed == [label |-> <<"q", "u", "a", "n", "t", "i", "c", "s", "-", "h", "a", "r", "t", "r", "e", "e", "-", "f", "i", "x", "e", "d">>, computer |-> <<"h", "a", "r", "t", "r", "e", "e">>]

CodeMine == [label |-> <<"m", "y", "q", "u", "a", "n", "t", "i", "c", "s">>, computer |-> <<"p", "c">>]

CodeOther == [label |-> <<"v", "a", "s", "p">>, computer |-> <<"p", "c">>]

CodeSets == { {}, {CodeOther}, {CodeMine, CodeOther}, {CodeLocal, CodeFixed} }

\* the code_label argument: None, a code that may exist, a code that does not
CodeLabels == { <<>>, <<<<"m", "y", "q", "u", "a", "n", "t", "i", "c", "s", "@", "p", "c">>>>, <<<<"n", "o", "s", "u", "c", "h">>>> }

full_label(code) == code.label \o <<"@">> \o code.computer

\* orm.load_code(identifier): the codes the identifier names
load_code(identifier, codes) ==
    {c \in codes : full_label(c) = identifier \/ c.label = identifier}

\* lines 459-487: the values quantics_code may have after trying `options` in
\* order and then the query; the query's first row is whichever the database
\* returns first
RECURSIVE TryCodeOptions(_, _)
TryCodeOptions(options, codes) ==
    IF options = <<>>
    THEN LET available_codes == {c \in codes : ContainsSub(c.label, QUANTICS)}
         IN  IF available_codes # {} THEN {<<c>> : c \in available_codes} ELSE {<<>>}
    ELSE LET code_option == Head(options)
             found == load_code(code_option[1], codes)
         IN  IF ~Truthy(code_option) \/ found = {}
             THEN TryCodeOptions(Tail(options), codes)
             ELSE IF Cardinality(found) = 1 THEN {<<c>> : c \in found}
             ELSE {<<>>}

\* lines 448-488
_setup_code(code_label, codes) ==
    TryCodeOptions(<<code_label, <<HARTREE_FIXED>>, <<HARTREE_OLD>>, <<LOCALHOST>> >>, codes)

\* the state after QuanticsAiidaIntegration(code_label=...) on a profile; the
\* local runner is not used
InitAdapter ==
    /\ \E codes \in CodeSets, code_label \in CodeLabels :
          /\ profile = [codes |-> codes, nodes |-> <<>>]
          /\ quantics_code \in _setup_code(code_label, codes)
    /\ calculations = EmptyMap
    /\ config_file = <<>>
    /\ fs = EmptyMap
    /\ clock = 0
    /\ pc = [t \in AllCallers |-> "idle"]
    /\ frame = [t \in AllCallers |-> Idle]
    /\ ret = [t \in AllCallers |-> NoRet]
    /\ procs = [n \in Names |-> 0]
    /\ effects = {}
    /\ toolenv = AllOk
    /\ everCompleted = [n \in Names |-> FALSE]
    /\ worker = NoWorker
    /\ ncalls = 0

-----------------------------------------------------------------------------
(* QuanticsWorkChain, as the platform's daemon executes it *)

\* the workflow types a caller may pass: the three known ones and another string
AdapterWorkflowTypes == {"MCTDH", "vMCG", "DD-vMCG", "TDDFT"}

MaxSubmits == 1

\* line 311: spec.outline(...)
Outline == <<"run_quantics", "check_quantics", "run_analysis", "finalize_results">>

\* a SinglefileData node, and a QuanticsWorkChain node as submit() stores it
DataNode(role) == [kind |-> "data", role |-> role]

WorkChainNode(code, workflow_type, run_analysis) ==
    [kind |-> "workchain",
     inputs |-> [quantics_code |-> code, workflow_type |-> workflow_type,
                 run_analysis |-> run_analysis],
     step |-> 1, state |-> "created", exit_status |-> <<>>, ctx |-> <<>>,
     outputs |-> {}, ran |-> <<>>]

WorkChains == {pk \in 1..Len(profile.nodes) : profile.nodes[pk].kind = "workchain"}

is_finished(node) == node.state = "finished"

is_finished_ok(node) == node.state = "finished" /\ node.exit_status = <<0>>

PutNode(pk, node) == profile' = [profile EXCEPT !.nodes[pk] = node]

\* what no step of the integration layer or of the daemon touches
IntegrationUnchanged ==
    UNCHANGED <<calculations, config_file, fs, clock, pc, frame, procs, everCompleted,
                ncalls, toolenv, quantics_code>>

AdapterUnchanged == IntegrationUnchanged /\ UNCHANGED worker

\* lines 318-364: the calculation job is submitted with the tools of the type
run_quantics(pk) ==
    /\ pk \in WorkChains
    /\ profile.nodes[pk].step = 1
    /\ LET node == profile.nodes[pk]
           analysis_tools == _get_analysis_tools(node.inputs.workflow_type)
           calc == [code |-> node.inputs.quantics_code,
                    analysis_tools |-> IF node.inputs.run_analysis /\ analysis_tools # <<>>
                                       THEN <<analysis_tools>> ELSE <<>>,
                    considered |-> analysis_tools,
                    state |-> "waiting", exit_status |-> <<>>, outputs |-> {}]
       IN  PutNode(pk, [node EXCEPT !.ctx = <<calc>>, !.step = 2, !.state = "waiting",
                                    !.ran = Append(@, Outline[1])])
    /\ effects' = {<<"submit_calc", pk>>}
    /\ UNCHANGED ret
    /\ AdapterUnchanged

\* the outputs QuanticsAiidaParser.parse attaches (lines 234-246) when it succeeds
ParserOutputs(calc) ==
    { {"results", "output_folder"}, {"results"} }
    \cup (IF calc.analysis_tools # <<>>
          THEN { {"results", "analysis_results", "output_folder"} } ELSE {})

\* the calculation job terminates: finished with exit status 0 and the parser's
\* outputs, or with a nonzero exit status and none
CalcJobEnds(pk, ok, outs) ==
    /\ pk \in WorkChains
    /\ profile.nodes[pk].step = 2
    /\ profile.nodes[pk].ctx[1].state = "waiting"
    /\ LET node == profile.nodes[pk]
           calc == node.ctx[1]
       IN  /\ outs \in ParserOutputs(calc)
           /\ PutNode(pk, [node EXCEPT !.ctx[1].state = "finished",
                                       !.ctx[1].exit_status = IF ok THEN <<0>> ELSE <<200>>,
                                       !.ctx[1].outputs = IF ok THEN outs ELSE {},
                                       !.state = "running"])
    /\ effects' = {}
    /\ UNCHANGED ret
    /\ AdapterUnchanged

\* the failure of the calculation is not noticed
check_quantics_NeverFails(calc) == <<>>

\* lines 366-374: the exit code the step returns, <<>> for None
check_quantics(calc) == IF ~is_finished_ok(calc) THEN <<400>> ELSE <<>>

\* a step that returns an exit code ends the work chain with it
CheckStep(pk) ==
    /\ pk \in WorkChains
    /\ profile.nodes[pk].step = 2
    /\ profile.nodes[pk].ctx[1].state = "finished"
    /\ LET node == profile.nodes[pk]
           code == check_quantics(node.ctx[1])
           n1 == [node EXCEPT !.ran = Append(@, Outline[2])]
       IN  IF code # <<>>
           THEN PutNode(pk, [n1 EXCEPT !.state = "finished", !.exit_status = code,
                                       !.step = Len(Outline) + 1])
           ELSE PutNode(pk, [n1 EXCEPT !.step = 3])
    /\ effects' = {}
    /\ UNCHANGED ret
    /\ AdapterUnchanged

\* lines 376-383: only a report
run_analysis(pk) ==
    /\ pk \in WorkChains
    /\ profile.nodes[pk].step = 3
    /\ PutNode(pk, [profile.nodes[pk] EXCEPT !.step = 4, !.ran = Append(@, Outline[3])])
    /\ effects' = {}
    /\ UNCHANGED ret
    /\ AdapterUnchanged

\* lines 385-396: the outputs are attached; reading calc.outputs.output_folder
\* raises when the parser attached none, and the work chain is then excepted
\* with or without the output attached before (`kept`)
finalize_results(pk, kept) ==
    /\ pk \in WorkChains
    /\ profile.nodes[pk].step = 4
    /\ LET node == profile.nodes[pk]
           calc == node.ctx[1]
           n1 == [node EXCEPT !.step = Len(Outline) + 1, !.ran = Append(@, Outline[4])]
       IN  IF "output_folder" \in calc.outputs
           THEN PutNode(pk, [n1 EXCEPT
                    !.state = "finished", !.exit_status = <<0>>,
                    !.outputs = {"calculation_results", "output_folder"}
                        \cup (IF "analysis_results" \in calc.outputs
                              THEN {"analysis_results"} ELSE {})])
           ELSE PutNode(pk, [n1 EXCEPT
                    !.state = "excepted",
                    !.outputs = IF kept THEN {"calculation_results"} ELSE {}])
    /\ effects' = {}
    /\ UNCHANGED ret
    /\ AdapterUnchanged

-----------------------------------------------------------------------------
(* QuanticsAiidaIntegration: submit_calculation and the two queries *)

\* the test for a resolved code is left out
CodeReady_Always(code) == TRUE

\* line 514: `if not self.quantics_code`
CodeReady(code) == code # <<>>

\* lines 490-546, without the optional db_folder and analysis_params nodes
submit_calculation(t, workflow_type, run_analysis_flag) ==
    /\ pc[t] = "idle"
    /\ Cardinality(WorkChains) < MaxSubmits
    /\ IF ~CodeReady(quantics_code)
       THEN /\ ret' = [ret EXCEPT ![t] = [op |-> "submit", raised |-> "ValueError",
                                          pk |-> <<>>]]
            /\ effects' = {}
            /\ UNCHANGED profile
       ELSE LET inp_data == Len(profile.nodes) + 1
                op_data == Len(profile.nodes) + 2
                process == Len(profile.nodes) + 3
            IN  /\ profile' = [profile EXCEPT !.nodes =
                       @ \o <<DataNode("inp_file"), DataNode("op_file"),
                              WorkChainNode(quantics_code, workflow_type,
                                            run_analysis_flag)>>]
                /\ effects' = {<<"new_data", inp_data>>, <<"new_data", op_data>>,
                               <<"submit", process>>}
                /\ ret' = [ret EXCEPT ![t] = [op |-> "submit", raised |-> "none",
                                              pk |-> <<process>>]]
    /\ IntegrationUnchanged

\* orm.load_node(pk): <<>> when it raises (no such node, or the database is down)
load_node(pk, up) ==
    IF up /\ pk \in 1..Len(profile.nodes) THEN <<profile.nodes[pk]>> ELSE <<>>

ErrorMapping(e) == [error |-> e]

\* lines 548-568; a node that is not a process has no is_finished
get_calculation_status(pk, up) ==
    LET loaded == load_node(pk, up)
        process == loaded[1]
    IN  IF loaded = <<>> THEN ErrorMapping("NotExistent")
        ELSE IF process.kind # "workchain" THEN ErrorMapping("AttributeError")
        ELSE [pk |-> pk,
              label |-> <<"QUANTICS_", pk>>,
              state |-> process.state,
              created |-> <<"ctime", pk>>,
              finished |-> IF is_finished(process) THEN <<"mtime", pk>> ELSE <<>>,
              exit_status |-> process.exit_status,
              has_outputs |-> process.outputs # {}]

\* the key under which get_calculation_results reports an output
ResultKey ==
    [o \in {"calculation_results", "analysis_results", "output_folder"} |->
        IF o = "calculation_results" THEN "calculation"
        ELSE IF o = "analysis_results" THEN "analysis" ELSE "output_files"]

\* the results of any process are handed out, finished or not
get_calculation_results_Unchecked(pk, up) ==
    LET loaded == load_node(pk, up)
    IN  IF loaded = <<>> THEN ErrorMapping("NotExistent")
        ELSE IF loaded[1].kind # "workchain" THEN ErrorMapping("AttributeError")
        ELSE [k \in {ResultKey[o] : o \in loaded[1].outputs} |-> "data"]

\* lines 570-596
get_calculation_results(pk, up) ==
    LET loaded == load_node(pk, up)
        process == loaded[1]
    IN  IF loaded = <<>> THEN ErrorMapping("NotExistent")
        ELSE IF process.kind # "workchain" THEN ErrorMapping("AttributeError")
        ELSE IF ~is_finished_ok(process)
        THEN ErrorMapping("Calculation not completed successfully")
        ELSE [k \in {ResultKey[o] : o \in process.outputs} |-> "data"]

StatusCall(t, pk, up) ==
    /\ pc[t] = "idle"
    /\ ret' = [ret EXCEPT ![t] = [op |-> "status", pk |-> pk,
                                  value |-> get_calculation_status(pk, up)]]
    /\ effects' = {}
    /\ UNCHANGED profile
    /\ AdapterUnchanged

ResultsCall(t, pk, up) ==
    /\ pc[t] = "idle"
    /\ ret' = [ret EXCEPT ![t] = [op |-> "results", pk |-> pk,
                                  value |-> get_calculation_results(pk, up)]]
    /\ effects' = {}
    /\ UNCHANGED profile
    /\ AdapterUnchanged

\* process identifiers a caller may ask about: every node and one that is not there
Pks == 1..(3 * MaxSubmits + 1)

\* the steps the daemon takes on the submitted work chains
DaemonStep ==
    \/ \E pk \in Pks : run_quantics(pk)
    \/ \E pk \in Pks, ok \in BOOLEAN,
          outs \in SUBSET {"results", "analysis_results", "output_folder"} :
          CalcJobEnds(pk, ok, outs)
    \/ \E pk \in Pks : CheckStep(pk)
    \/ \E pk \in Pks : run_analysis(pk)
    \/ \E pk \in Pks, kept \in BOOLEAN : finalize_results(pk, kept)

\* submissions of every workflow type and their execution
NextAdapter ==
    \/ \E t \in SeqCallers, w \in AdapterWorkflowTypes, a \in BOOLEAN :
          submit_calculation(t, w, a) /\ UNCHANGED worker
    \/ DaemonStep

SpecAdapter == InitAdapter /\ [][NextAdapter]_vars

\* submissions, their execution, and a caller polling them
NextQuery ==
    \/ \E t \in SeqCallers, a \in BOOLEAN :
          submit_calculation(t, "MCTDH", a) /\ UNCHANGED worker
    \/ DaemonStep
    \/ \E t \in SeqCallers, pk \in Pks, up \in BOOLEAN : StatusCall(t, pk, up)
    \/ \E t \in SeqCallers, pk \in Pks, up \in BOOLEAN : ResultsCall(t, pk, up)

SpecQuery == InitAdapter /\ [][NextQuery]_vars

-----------------------------------------------------------------------------
(* src/quantics_gui_aiida.py: AiidaWorkerThread.  The GUI thread calls       *)
(* submit_calculation and stop_monitoring; run() is the worker thread, after *)
(* setup_aiida has constructed the integration layer.  Both queries catch    *)
(* every exception themselves, so the except branch of run() is not entered. *)

\* str(process.pk) and int(process_pk)
PkStr(pk) == <<"pk", pk>>

PkInt(process_pk) == process_pk[2]

\* line 113
TerminalStates == {"finished", "excepted", "killed"}

\* a status with a 'state' key is taken for terminal although it is not
IsTerminal_AnyState(status) == "state" \in DOMAIN status

\* a status without a 'state' key is taken for a terminal one
IsTerminal_OrError(status) ==
    "state" \notin DOMAIN status \/ status.state \in TerminalStates

\* line 113: status.get('state') in [...]
IsTerminal(status) == "state" \in DOMAIN status /\ status.state \in TerminalStates

WorkerUnchanged ==
    UNCHANGED <<calculations, config_file, fs, clock, pc, frame, ret, procs,
                everCompleted, ncalls, toolenv, quantics_code, profile>>

\* lines 84-102: the process is submitted and its identifier is monitored
WorkerSubmit(t, workflow_type, run_analysis_flag) ==
    /\ submit_calculation(t, workflow_type, run_analysis_flag)
    /\ worker' = IF ret'[t].raised = "none"
                 THEN [worker EXCEPT !.monitoring_processes = @ \cup {PkStr(ret'[t].pk[1])}]
                 ELSE worker

\* line 188: QThread.start()
WorkerStart ==
    /\ worker.at = "created"
    /\ worker' = [worker EXCEPT !.at = "while"]
    /\ effects' = {}
    /\ WorkerUnchanged

\* lines 106-108: the loop condition, the test of the monitoring set and the
\* copy of the set the for loop iterates over
WhileTest ==
    /\ worker.at = "while"
    /\ worker' = IF worker.should_stop THEN [worker EXCEPT !.at = "exited"]
                 ELSE IF worker.monitoring_processes # {}
                 THEN [worker EXCEPT !.at = "for", !.todo = worker.monitoring_processes]
                 ELSE [worker EXCEPT !.at = "msleep"]
    /\ effects' = {}
    /\ WorkerUnchanged

\* lines 109-118: one iteration of the for loop; `up` and `up2` tell whether
\* the platform's database answers the status and the results lookup
ForBody(process_pk, up, up2) ==
    /\ worker.at = "for"
    /\ process_pk \in worker.todo
    /\ LET status == get_calculation_status(PkInt(process_pk), up)
           results == get_calculation_results(PkInt(process_pk), up2)
           success == "error" \notin DOMAIN results
           rest == worker.todo \ {process_pk}
           w1 == [worker EXCEPT !.todo = rest,
                                !.at = IF rest = {} THEN "msleep" ELSE "for"]
       IN  IF IsTerminal(status)
           THEN /\ effects' = {<<"status_updated", process_pk, status>>,
                               <<"calculation_finished", process_pk, success, results>>}
                /\ worker' = [w1 EXCEPT !.monitoring_processes = @ \ {process_pk},
                                        !.finished = Append(@, process_pk)]
           ELSE /\ effects' = {<<"status_updated", process_pk, status>>}
                /\ worker' = w1
    /\ WorkerUnchanged

\* line 124: self.msleep(5000)
Msleep ==
    /\ worker.at = "msleep"
    /\ worker' = [worker EXCEPT !.at = "while"]
    /\ effects' = {}
    /\ WorkerUnchanged

\* lines 126-128
stop_monitoring ==
    /\ ~worker.should_stop
    /\ worker' = [worker EXCEPT !.should_stop = TRUE]
    /\ effects' = {}
    /\ WorkerUnchanged

\* the platform kills a process that has not terminated (verdi process kill)
KillProcess(pk) ==
    /\ pk \in WorkChains
    /\ profile.nodes[pk].state \notin TerminalStates
    /\ PutNode(pk, [profile.nodes[pk] EXCEPT !.state = "killed",
                                             !.step = Len(Outline) + 1])
    /\ effects' = {}
    /\ UNCHANGED ret
    /\ AdapterUnchanged

\* the steps of the worker thread
WorkerStep ==
    \/ WorkerStart
    \/ WhileTest
    \/ \E process_pk \in worker.todo, up \in BOOLEAN, up2 \in BOOLEAN :
          ForBody(process_pk, up, up2)
    \/ Msleep

\* the GUI submits and stops, the daemon executes, the worker thread monitors
NextMonitor ==
    \/ \E t \in SeqCallers, a \in BOOLEAN : WorkerSubmit(t, "MCTDH", a)
    \/ stop_monitoring
    \/ DaemonStep
    \/ \E pk \in Pks : KillProcess(pk)
    \/ WorkerStep

SpecMonitor == InitAdapter /\ [][NextMonitor]_vars

-----------------------------------------------------------------------------
(* src/src/utils/config.py: save_config and load_config.  A configuration   *)
(* value is tagged with its Python type: a Path, a str, a list or None.     *)

\* pathlib.Path(s): a trailing slash is dropped and the empty path is "."
Path(s) ==
    [t |-> "path",
     v |-> IF s = <<>> THEN <<".">>
           ELSE IF Len(s) > 1 /\ s[Len(s)] = "/" THEN SubSeq(s, 1, Len(s) - 1)
           ELSE s]

Str(s) == [t |-> "str", v |-> s]

List(items) == [t |-> "list", v |-> items]

\* lines 93-100
path_keys ==
    {"inp_file", "op_file", "db_folder", "working_directory", "quantics_executable",
     "base_directory"}

\* lines 73-87, for a configuration without nested dictionaries
_serialize_config(config) ==
    [key \in DOMAIN config |->
        LET value == config[key]
        IN  IF value.t = "path" THEN Str(value.v)
            ELSE IF value.t = "list"
            THEN List([i \in 1..Len(value.v) |->
                          IF value.v[i].t = "path" THEN Str(value.v[i].v) ELSE value.v[i]])
            ELSE value]

\* Python truthiness of a JSON value
TruthyValue(value) ==
    IF value.t \in {"str", "list"} THEN value.v # <<>> ELSE value.t # "none"

\* no key is converted back to a path
_deserialize_config_KeepsStrings(config) == config

\* lines 90-112; the paths handed to Path() here are strings
_deserialize_config(config) ==
    [key \in DOMAIN config |->
        LET value == config[key]
        IN  IF key \in path_keys /\ TruthyValue(value) THEN Path(value.v) ELSE value]

INPUT_INP == <<"/", "t", "e", "s", "t", "/", "i", "n", "p", "u", "t", ".", "i", "n", "p">>

DATA_DIR == <<"d", "a", "t", "a", "/">>

TEST_CALC == <<"t", "e", "s", "t", "_", "c", "a", "l", "c">>

ConfigKeys == {"inp_file", "quantics_executable", "calculation_name", "analysis_tools"}

\* a path, a string that is also a path with a trailing slash, the empty
\* string, and a list of two strings
ConfigValues ==
    {Path(INPUT_INP), Str(DATA_DIR), Str(TEST_CALC), Str(<<>>),
     List(<<Str(RDCHECK_ETOT), Str(RDCHECK_SPOP)>>)}

\* values under which Path(value) does not raise
ValuesFor(key) ==
    IF key \in path_keys THEN {v \in ConfigValues : v.t # "list"} ELSE ConfigValues

Configs ==
    UNION {{c \in [ks -> ConfigValues] : \A k \in ks : c[k] \in ValuesFor(k)} :
              ks \in SUBSET ConfigKeys}

\* a caller is about to save a configuration and load it back
InitConfig ==
    /\ pc = [t \in AllCallers |-> IF t \in SeqCallers THEN "save_config" ELSE "idle"]
    /\ \E config \in Configs :
          frame = [t \in AllCallers |->
                      IF t \in SeqCallers
                      THEN [op |-> "config", config |-> config, file |-> <<>>]
                      ELSE Idle]
    /\ quantics_code = <<>>
    /\ profile = NoProfile
    /\ worker = NoWorker
    /\ calculations = EmptyMap
    /\ config_file = <<>>
    /\ fs = EmptyMap
    /\ clock = 0
    /\ ret = [t \in AllCallers |-> NoRet]
    /\ procs = [n \in Names |-> 0]
    /\ effects = {}
    /\ toolenv = AllOk
    /\ everCompleted = [n \in Names |-> FALSE]
    /\ ncalls = 0

\* lines 15-44: the JSON document is written
save_config(t) ==
    /\ pc[t] = "save_config"
    /\ pc' = [pc EXCEPT ![t] = "load_config"]
    /\ frame' = [frame EXCEPT ![t].file = <<_serialize_config(frame[t].config)>>]
    /\ effects' = {<<"write_config">>}
    /\ UNCHANGED <<calculations, config_file, fs, clock, ret, procs, everCompleted,
                   ncalls, toolenv, quantics_code, profile, worker>>

\* lines 47-70: the document is read back
load_config(t) ==
    /\ pc[t] = "load_config"
    /\ pc' = [pc EXCEPT ![t] = "idle"]
    /\ frame' = [frame EXCEPT ![t] = Idle]
    /\ ret' = [ret EXCEPT ![t] = [op |-> "load_config", config |-> frame[t].config,
                                  loaded |-> _deserialize_config(frame[t].file[1])]]
    /\ effects' = {<<"read_config">>}
    /\ UNCHANGED <<calculations, config_file, fs, clock, procs, everCompleted,
                   ncalls, toolenv, quantics_code, profile, worker>>

NextConfig ==
    \/ \E t \in SeqCallers : save_config(t)
    \/ \E t \in SeqCallers : load_config(t)

SpecConfig == InitConfig /\ [][NextConfig]_vars

-----------------------------------------------------------------------------
(* Properties *)

Registered == DOMAIN calculations

\* caller t's step is a call of create_calculation(name, ...)
CreateCallStep(t, name) ==
    /\ pc[t] = "idle" /\ pc'[t] = "idle"
    /\ ncalls' = ncalls + 1
    /\ ret'[t].op = "create" /\ ret'[t].name = name

\* caller t's step is the entry of run_calculation on `name`
RunCallStep(t, name) ==
    /\ pc[t] = "idle"
    /\ ncalls' = ncalls + 1
    /\ \/ pc'[t] = "start" /\ frame'[t].name = name
       \/ pc'[t] = "idle" /\ ret'[t].op = "run" /\ ret'[t].name = name

\* caller t's step is the entry of run_analysis / run_analysis_with_params on `name`
AnalysisCallStep(t, name) ==
    /\ pc[t] = "idle"
    /\ ncalls' = ncalls + 1
    /\ \/ pc'[t] = "tools" /\ frame'[t].name = name
       \/ pc'[t] = "idle" /\ ret'[t].op = "analysis" /\ ret'[t].name = name

\* the step is one of the runner's own, not the end of the owning process
RunnerStep == <<"load">> \notin effects'

\* caller t has just returned from run_calculation and nothing has happened since
JustRan(t) == pc[t] = "idle" /\ ret[t].op = "run"

JustAnalysed(t) == pc[t] = "idle" /\ ret[t].op = "analysis"

\* C1: create_calculation on a name that is already registered raises the
\* duplicate-name error and leaves the registry, the registry file and the
\* working directories as they were.
C1_DuplicateNameRejected ==
    [][\A t \in SeqCallers, n \in Names :
          (n \in Registered /\ CreateCallStep(t, n)) =>
             /\ ret'[t].raised = "ValueError"
             /\ calculations' = calculations
             /\ config_file' = config_file
             /\ fs' = fs
             /\ effects' = {}]_vars

\* a duplicate create on a record that was loaded from the registry file (a record
\* is running with no call in progress only after a reload)
C1_Witness ==
    /\ ret[1].op = "create" /\ ret[1].raised = "ValueError"
    /\ NameA \in Registered /\ calculations[NameA].status = "running"
    /\ pc[1] = "idle"

\* C2: when the subprocess was spawned and exited with code c, the call returns
\* with status completed iff c = 0 and failed otherwise, returns true exactly
\* when completed, and end_time is set and not before start_time.
C2_ExitCodeDecidesStatus ==
    \A t \in SeqCallers :
        (JustRan(t) /\ ret[t].code # <<>>) =>
            LET calc == calculations[ret[t].name]
            IN  /\ (calc.status = "completed") <=> (ret[t].code[1] = 0)
                /\ (calc.status = "failed") <=> (ret[t].code[1] # 0)
                /\ ret[t].ok <=> (calc.status = "completed")
                /\ calc.end_time # <<>> /\ calc.start_time # <<>>
                /\ calc.end_time[1] >= calc.start_time[1]

C2_Witness ==
    /\ JustRan(1) /\ ret[1].code = <<1>>
    /\ calculations[ret[1].name].status = "failed"
    /\ calculations[ret[1].name].end_time[1] > calculations[ret[1].name].start_time[1]

StatusChange(n) == <<calculations[n].status, calculations'[n].status>>

ForwardTransitions ==
    {<<"created", "running">>, <<"running", "completed">>, <<"running", "failed">>}

RerunTransitions == {<<"completed", "running">>, <<"failed", "running">>}

\* C3 as stated: status changes only along created -> running, running ->
\* completed and running -> failed, so completed and failed are never left.
C3_Original ==
    [][\A n \in Names :
          (n \in Registered /\ n \in DOMAIN calculations'
             /\ calculations'[n].status # calculations[n].status) =>
                StatusChange(n) \in ForwardTransitions]_vars

\* C3 amended: status changes only along created -> running, running ->
\* completed, running -> failed, and, by a re-run, completed -> running and
\* failed -> running.
C3_Transitions ==
    [][\A n \in Names :
          (n \in Registered /\ n \in DOMAIN calculations'
             /\ calculations'[n].status # calculations[n].status) =>
                StatusChange(n) \in ForwardTransitions \cup RerunTransitions]_vars

\* a second run cycle has ended: the record failed after it had been completed
C3_Witness ==
    /\ NameA \in Registered
    /\ calculations[NameA].status = "failed"
    /\ everCompleted[NameA]
    /\ JustRan(1) /\ ret[1].stage = "exit"

\* C4: run_calculation on a completed or failed calculation whose preparation
\* succeeds sets status to running, overwrites start_time with the present
\* time, saves the registry, and then opens the log and spawns the executable.
C4_RerunStartsNewCycle ==
    [][\A t \in SeqCallers :
          /\ (pc[t] = "start" /\ RunnerStep
                /\ calculations[frame[t].name].status \in {"completed", "failed"}) =>
                LET calc == calculations'[frame[t].name]
                IN  /\ calc.status = "running"
                    /\ calc.start_time = <<clock'>>
                    /\ config_file' = Serialise(calculations')
                    /\ <<"save">> \in effects'
                    /\ pc'[t] = "spawn"
          /\ (pc[t] = "spawn" /\ RunnerStep) =>
                /\ <<"open_log">> \in effects'
                /\ \/ /\ pc'[t] = "wait"
                      /\ <<"spawn_quantics", frame[t].name>> \in effects'
                      /\ procs'[frame[t].name] = procs[frame[t].name] + 1
                   \/ /\ pc'[t] = "idle"
                      /\ ret'[t].stage = "spawn"]_vars

\* the executable is running again for a calculation that had ended before, with
\* a start_time later than the previous end_time
C4_Witness ==
    /\ pc[1] = "wait"
    /\ calculations[frame[1].name].status = "running"
    /\ calculations[frame[1].name].end_time # <<>>
    /\ calculations[frame[1].name].start_time[1] > calculations[frame[1].name].end_time[1]

\* C5: run_calculation on a running calculation returns false and changes
\* nothing: no copy, no spawn, no save, the record as it was.
C5_RunningRejected ==
    [][\A t \in SeqCallers, n \in Names :
          (n \in Registered /\ calculations[n].status = "running" /\ RunCallStep(t, n)) =>
             /\ pc'[t] = "idle"
             /\ ret'[t].ok = FALSE
             /\ calculations' = calculations
             /\ config_file' = config_file
             /\ fs' = fs
             /\ procs' = procs
             /\ effects' = {}]_vars

C5_Witness ==
    /\ JustRan(1) /\ ret[1].stage = "check" /\ ~ret[1].ok
    /\ calculations[ret[1].name].status = "running"
    /\ effects = {}

\* C6: a run_calculation call that got past the running check and the
\* preparation returns with status completed or failed, end_time set and the
\* registry saved; when the spawn raised, status is failed and the result false.
C6_RunEndsTerminal ==
    \A t \in SeqCallers :
        (JustRan(t) /\ ret[t].stage \in {"spawn", "exit"}) =>
            LET calc == calculations[ret[t].name]
            IN  /\ calc.status \in {"completed", "failed"}
                /\ calc.end_time # <<>>
                /\ config_file = Serialise(calculations)
                /\ <<"save">> \in effects
                /\ ret[t].stage = "spawn" => (calc.status = "failed" /\ ~ret[t].ok)

\* the spawn raised on a re-run of a calculation that had been completed
C6_Witness ==
    /\ JustRan(1) /\ ret[1].stage = "spawn"
    /\ everCompleted[ret[1].name]
    /\ calculations[ret[1].name].status = "failed"

\* the copies prepare_calculation has to make for `calc`
PrepIncomplete(calc, io) ==
    \/ <<"copy_inp">> \notin io
    \/ ~\E e \in io : e[1] = "copy_op"
    \/ calc.workflow_type = "DD-vMCG" /\ calc.db_folder # <<>> /\ <<"copy_db">> \notin io

\* C7 as stated: a failed preparation makes run_calculation return false and
\* marks the calculation failed.
C7_Original ==
    \A t \in SeqCallers :
        (JustRan(t) /\ ret[t].stage = "prepare") =>
            /\ ~ret[t].ok
            /\ calculations[ret[t].name].status = "failed"

\* C7 amended: when a copy of the preparation step fails, run_calculation
\* returns false without raising and leaves the record (status, start_time,
\* end_time, results) and the registry file as they were: the calculation is
\* not marked failed.
C7_PrepareFailureLeavesRecord ==
    [][\A t \in SeqCallers, n \in Names :
          (n \in Registered /\ calculations[n].status # "running" /\ RunCallStep(t, n)
             /\ PrepIncomplete(calculations[n], effects')) =>
                /\ pc'[t] = "idle"
                /\ ret'[t].stage = "prepare"
                /\ ret'[t].ok = FALSE
                /\ calculations' = calculations
                /\ config_file' = config_file
                /\ procs' = procs]_vars

\* the DB folder could not be copied for a calculation that is still created
C7_Witness ==
    /\ JustRan(1) /\ ret[1].stage = "prepare"
    /\ calculations[ret[1].name].status = "created"
    /\ <<"copy_inp">> \in effects /\ <<"copy_db">> \notin effects
    /\ \E e \in effects : e[1] = "copy_op"

\* C8: results is written only while status is completed, and a record that
\* has never been completed has empty results.
C8_ResultsOnlyWhenCompleted ==
    [][\A n \in Names :
          n \in DOMAIN calculations' =>
             /\ (n \in Registered /\ calculations'[n].results # calculations[n].results) =>
                    calculations'[n].status = "completed"
             /\ ~everCompleted'[n] => calculations'[n].results = EmptyResults]_vars

\* a failed record that has never been completed, with an output directory on disk
C8_Witness ==
    /\ NameA \in Registered
    /\ calculations[NameA].status = "failed"
    /\ ~everCompleted[NameA]
    /\ DOMAIN fs[calculations[NameA].working_directory[1]].out # {}
    /\ JustAnalysed(1)

\* C9: run_analysis and run_analysis_with_params on a calculation that is not
\* completed return an empty mapping, run no tool and leave the record and
\* the registry file as they were.
C9_AnalysisRejected ==
    [][\A t \in SeqCallers, n \in Names :
          (n \in Registered /\ calculations[n].status # "completed"
             /\ AnalysisCallStep(t, n)) =>
                /\ pc'[t] = "idle"
                /\ ret'[t].map = EmptyMap /\ ~ret'[t].ran /\ ret'[t].attempted = {}
                /\ calculations' = calculations
                /\ config_file' = config_file
                /\ effects' = {}]_vars

\* run_analysis_with_params was refused on a failed record whose output directory exists
C9_Witness ==
    /\ JustAnalysed(1) /\ ~ret[1].ran /\ ret[1].params # <<>>
    /\ calculations[ret[1].name].status = "failed"
    /\ ResolveOutputName(calculations[ret[1].name],
                         fs[calculations[ret[1].name].working_directory[1]])
          \in DOMAIN fs[calculations[ret[1].name].working_directory[1]].out

Recognised(tool) == StartsWith(tool, RDCHECK) \/ tool = RDGPOP \/ tool = DDTRAJ

RecognisedOf(tools) == {tools[i] : i \in {j \in 1..Len(tools) : Recognised(tools[j])}}

\* C10: a batch that ran returns a mapping whose keys are exactly the listed
\* tools that are recognised, and subprocess.run was called for exactly those.
C10_KeysAreRecognisedTools ==
    \A t \in SeqCallers :
        (JustAnalysed(t) /\ ret[t].ran) =>
            /\ DOMAIN ret[t].map = RecognisedOf(ret[t].tools)
            /\ ret[t].attempted = RecognisedOf(ret[t].tools)

\* the batch with an unknown tool between two recognised ones
C10_Witness ==
    /\ JustAnalysed(1) /\ ret[1].ran
    /\ ret[1].tools = <<RDCHECK_ETOT, NONEXISTENT, RDGPOP>>
    /\ DOMAIN ret[1].map = {RDCHECK_ETOT, RDGPOP}

\* the executable a recognised tool's command starts
Executable(tool) == SplitWs(tool, <<>>)[1]

WritesOutput == \E e \in effects' : e[1] = "write_output"

\* C11: in a batch, a recognised tool that exits with a nonzero code or cannot
\* be spawned is recorded with an error-tagged string ("Error: " for the exit,
\* "Exception: " for the spawn), no output file is written for it, and the loop
\* goes on to the next listed tool; after the last tool the batch is stored in
\* the record and the registry is saved, with every recognised tool attempted.
C11_FailedToolDoesNotStopBatch ==
    [][\A t \in SeqCallers :
          /\ (pc[t] \in {"tools", "toolwait"} /\ RunnerStep
                /\ frame[t].i <= Len(frame[t].tools)
                /\ Recognised(frame[t].tools[frame[t].i])
                /\ toolenv[Executable(frame[t].tools[frame[t].i])] \in {"nonzero", "missing"}
                /\ (pc[t] = "toolwait" \/ pc'[t] = "tools")) =>
                LET f == frame[t]
                    tool == f.tools[f.i]
                IN  /\ pc'[t] = "tools"
                    /\ frame'[t].i = f.i + 1
                    /\ tool \in DOMAIN frame'[t].results
                    /\ frame'[t].results[tool] =
                          IF toolenv[Executable(tool)] = "missing"
                          THEN ResultException ELSE ResultError
                    /\ ~WritesOutput
          /\ (pc[t] = "tools" /\ RunnerStep /\ frame[t].i > Len(frame[t].tools)) =>
                LET f == frame[t]
                    stored == IF f.params = <<>>
                              THEN calculations'[f.name].results.analysis
                              ELSE calculations'[f.name].results.analysis_with_params
                IN  /\ pc'[t] = "idle" /\ ret'[t].ran
                    /\ ret'[t].attempted = RecognisedOf(f.tools)
                    /\ stored = <<f.results>>
                    /\ config_file' = Serialise(calculations')
                    /\ <<"save">> \in effects']_vars

\* a batch has returned in which the first tool exited nonzero and the last one
\* still ran and succeeded
C11_Witness ==
    /\ JustAnalysed(1) /\ ret[1].ran
    /\ ret[1].tools = <<RDCHECK_ETOT, NONEXISTENT, RDGPOP>>
    /\ ret[1].map[RDCHECK_ETOT] = ResultError
    /\ ret[1].map[RDGPOP] = ResultStdout
    /\ calculations[ret[1].name].results.analysis = <<ret[1].map>>

\* C12: the tools of a batch run one at a time in list order: at most one tool
\* subprocess is active, a subprocess is spawned only when none is active and
\* every recognised tool listed before it has its result recorded.
C12_ToolsRunSequentially ==
    \A t \in SeqCallers :
        (pc[t] \in {"tools", "toolwait"}) =>
            LET f == frame[t]
            IN  /\ Cardinality(f.active) <= 1
                /\ f.active = IF pc[t] = "toolwait" THEN {f.i} ELSE {}
                /\ \A j \in 1..(f.i - 1) :
                      Recognised(f.tools[j]) => f.tools[j] \in DOMAIN f.results
                /\ \A j \in f.i..Len(f.tools) : f.tools[j] \notin DOMAIN f.results

\* the second tool's subprocess is active and the first tool's result is recorded
C12_Witness ==
    /\ pc[1] = "toolwait"
    /\ frame[1].tools = <<RDCHECKX, DDTRAJ>>
    /\ frame[1].i = 2
    /\ RDCHECKX \in DOMAIN frame[1].results

JustPrepared(t) == pc[t] = "idle" /\ ret[t].op = "prepare"

\* the text after the first "=" of s
RECURSIVE AfterEq(_)
AfterEq(s) ==
    IF s = <<>> THEN <<>>
    ELSE IF Head(s) = "=" THEN Tail(s) ELSE AfterEq(Tail(s))

\* the trimmed value of the first line of the form `key = <value>`, <<>> when
\* there is no such line
RECURSIVE DirectiveValue(_, _)
DirectiveValue(lines, key) ==
    IF lines = <<>> THEN <<>>
    ELSE LET line == Strip(Head(lines))
         IN  IF Contains(line, "=") /\ Strip(SplitOn(line, "=", <<>>)[1]) = key
             THEN <<Strip(AfterEq(line))>>
             ELSE DirectiveValue(Tail(lines), key)

\* C13 as stated: a successful prepare_calculation copies the input as
\* input.inp and the operator file as <v>.op, v the trimmed value of the first
\* line of the form opname = <value>, and as operator.op when there is no such
\* line.
C13_Original ==
    \A t \in SeqCallers :
        (JustPrepared(t) /\ ret[t].ok) =>
            LET v == DirectiveValue(ret[t].inp[1], PREFIX_OPNAME)
            IN  /\ <<"copy_inp">> \in effects
                /\ <<"copy_op", IF v # <<>> THEN v[1] \o DOT_OP ELSE OPERATOR_OP>>
                      \in effects

\* C14 as stated: after an exit with code 0, when the directory named by the
\* first line of the form name = <value> of input.inp exists in the working
\* directory (the calculation's own name when there is no such line), it is
\* the output directory reported in the record's results.
C14_Original ==
    \A t \in SeqCallers :
        (JustRan(t) /\ ret[t].code = <<0>>) =>
            LET calc == calculations[ret[t].name]
                wd == calc.working_directory[1]
                v == DirectiveValue(fs[wd].input[1], PREFIX_NAME)
                output_name == IF v # <<>> THEN v[1] ELSE calc.name
            IN  output_name \in DOMAIN fs[wd].out =>
                   /\ calc.results.output_directory =
                         <<[str |-> <<wd.path, output_name>>]>>
                   /\ calc.results.output_name = <<output_name>>

\* C15: whenever no Local Runner operation is in progress, the registry file
\* holds the serialisation of the whole in-memory registry (before the first
\* save there is no file and the registry is empty).
C15_RegistryFilePersisted ==
    (\A t \in SeqCallers : pc[t] = "idle") =>
        IF config_file = <<>>
        THEN calculations = EmptyMap
        ELSE config_file = Serialise(calculations)

\* an analysis batch has returned and the file holds its results
C15_Witness ==
    /\ JustAnalysed(1) /\ ret[1].ran /\ ret[1].map # EmptyMap
    /\ config_file # <<>>
    /\ config_file[1][ret[1].name].results.analysis = <<ret[1].map>>
    /\ config_file[1][ret[1].name].end_time # <<>>

JustParsed(t) == pc[t] = "idle" /\ ret[t].op = "parse"

Lines(text) == SplitOn(text, "\n", <<>>)

Minimum(S) == CHOOSE i \in S : \A j \in S : i <= j

Maximum(S) == CHOOSE i \in S : \A j \in S : i >= j

\* the lines containing the phrase, and those of them whose last token parses
Mentions(lines, phrase) == {i \in 1..Len(lines) : ContainsSub(lines[i], phrase)}

Parseable(lines, phrase) ==
    {i \in Mentions(lines, phrase) : LastTokenFloat(lines[i]) # <<>>}

\* the lines carrying a convergence verdict
Verdicts(lines) ==
    {i \in Mentions(lines, CONVERGENCE) :
        ContainsSub(lines[i], ACHIEVED) \/ ContainsSub(lines[i], FAILED)}

\* C17 as stated: the value comes from the first line containing the phrase
\* (absent when that line's last token does not parse, or when no line contains
\* it), and the first line carrying a verdict decides converged.
C17_Original ==
    \A t \in SeqCallers :
        JustParsed(t) =>
            LET lines == Lines(ret[t].text)
                First(phrase) ==
                    IF Mentions(lines, phrase) = {} THEN <<>>
                    ELSE LastTokenFloat(lines[Minimum(Mentions(lines, phrase))])
            IN  /\ ret[t].results.total_energy = First(TOTAL_ENERGY)
                /\ ret[t].results.final_time = First(FINAL_TIME)
                /\ ret[t].results.converged =
                      IF Verdicts(lines) = {} THEN <<>>
                      ELSE <<ContainsSub(lines[Minimum(Verdicts(lines))], ACHIEVED)>>

\* C17 amended: total_energy and final_time are the parsed last token of the
\* last line that contains the phrase and whose last token parses (absent when
\* there is none), and converged is decided by the last line carrying a
\* verdict: true if it says achieved, false otherwise.
C17_LastMatchingLineWins ==
    \A t \in SeqCallers :
        JustParsed(t) =>
            LET lines == Lines(ret[t].text)
                Last(phrase) ==
                    IF Parseable(lines, phrase) = {} THEN <<>>
                    ELSE LastTokenFloat(lines[Maximum(Parseable(lines, phrase))])
            IN  /\ ret[t].results.total_energy = Last(TOTAL_ENERGY)
                /\ ret[t].results.final_time = Last(FINAL_TIME)
                /\ ret[t].results.converged =
                      IF Verdicts(lines) = {} THEN <<>>
                      ELSE <<ContainsSub(lines[Maximum(Verdicts(lines))], ACHIEVED)>>

\* two energies and two verdicts: the later ones are reported
C17_Witness ==
    /\ JustParsed(1)
    /\ ret[1].text = JoinLines(<<ENERGY_1, CONV_FAILED, ENERGY_2>>)
    /\ ret[1].results = [total_energy |-> <<2>>, final_time |-> <<>>,
                         converged |-> <<FALSE>>]

\* the tool column of a list of (tool, description) pairs
ToolColumn(pairs) == [i \in 1..Len(pairs) |-> pairs[i][1]]

\* C16: the tools the work chain considers for a submitted calculation are, for
\* MCTDH, vMCG and DD-vMCG, the tool column of workflow_analysis_map in both
\* GUIs, in the same order, and the empty list for any other workflow type.
C16_ToolListsAgree ==
    \A pk \in WorkChains :
        profile.nodes[pk].ctx # <<>> =>
            LET w == profile.nodes[pk].inputs.workflow_type
                analysis_tools == profile.nodes[pk].ctx[1].considered
            IN  IF w \in {"MCTDH", "vMCG", "DD-vMCG"}
                THEN /\ w \in DOMAIN workflow_analysis_map
                     /\ w \in DOMAIN workflow_analysis_map_standalone
                     /\ analysis_tools = ToolColumn(workflow_analysis_map[w])
                     /\ analysis_tools = ToolColumn(workflow_analysis_map_standalone[w])
                ELSE analysis_tools = <<>>

\* a DD-vMCG work chain has handed its three tools to the calculation job
C16_Witness ==
    \E pk \in WorkChains :
        /\ profile.nodes[pk].inputs.workflow_type = "DD-vMCG"
        /\ profile.nodes[pk].ctx # <<>>
        /\ profile.nodes[pk].ctx[1].analysis_tools =
              << <<RDCHECK_ETOT, RDCHECK_SPOP, DDTRAJ>> >>

\* caller t's step is a call of submit_calculation (the daemon's steps change
\* the database and leave ret alone)
SubmitCallStep(t) ==
    /\ pc[t] = "idle"
    /\ ret'[t].op = "submit"
    /\ ret'[t] # ret[t] \/ profile' = profile

\* C18: submit_calculation without a resolved code raises the setup error,
\* creates no data node and submits nothing; a work chain that is submitted
\* carries the resolved code.
C18_NoSubmitWithoutCode ==
    [][\A t \in SeqCallers :
          SubmitCallStep(t) =>
             /\ quantics_code = <<>> =>
                   /\ ret'[t].raised = "ValueError"
                   /\ effects' = {}
                   /\ profile' = profile
             /\ \A pk \in (Len(profile.nodes) + 1)..Len(profile'.nodes) :
                   profile'.nodes[pk].kind = "workchain" =>
                      /\ quantics_code # <<>>
                      /\ profile'.nodes[pk].inputs.quantics_code = quantics_code]_vars

\* a profile with a code that is not a QUANTICS code: the call has raised and
\* the database is empty
C18_Witness ==
    /\ ret[1].op = "submit" /\ ret[1].raised = "ValueError"
    /\ quantics_code = <<>>
    /\ profile.codes = {CodeOther}
    /\ profile.nodes = <<>>

StatusKeys == {"pk", "label", "state", "created", "finished", "exit_status", "has_outputs"}

\* C19: get_calculation_status returns the full snapshot or a mapping with the
\* key error, and get_calculation_results returns a mapping with the key error
\* whenever the process is not finished successfully.
C19_QueriesReportErrors ==
    \A t \in SeqCallers :
        /\ (pc[t] = "idle" /\ ret[t].op = "status") =>
              \/ DOMAIN ret[t].value = StatusKeys
              \/ "error" \in DOMAIN ret[t].value
        /\ (pc[t] = "idle" /\ ret[t].op = "results"
              /\ ~(ret[t].pk \in WorkChains /\ is_finished_ok(profile.nodes[ret[t].pk]))) =>
              "error" \in DOMAIN ret[t].value

\* the results of a work chain that ended with exit code 400 were asked for
C19_Witness ==
    /\ ret[1].op = "results"
    /\ ret[1].pk \in WorkChains
    /\ profile.nodes[ret[1].pk].exit_status = <<400>>
    /\ ret[1].value = ErrorMapping("Calculation not completed successfully")

\* C20: the steps of a work chain run in the order of the outline; once
\* check_quantics has run on a calculation that did not finish successfully
\* the work chain is finished with exit code 400, finalize_results has not
\* run and no output is attached.
C20_FailedCalculationStopsWorkflow ==
    \A pk \in WorkChains :
        LET node == profile.nodes[pk]
        IN  /\ node.ran = SubSeq(Outline, 1, Len(node.ran))
            /\ (Len(node.ran) >= 2 /\ ~is_finished_ok(node.ctx[1])) =>
                  /\ node.ran = <<"run_quantics", "check_quantics">>
                  /\ node.state = "finished"
                  /\ node.exit_status = <<400>>
                  /\ node.outputs = {}

\* a work chain has ended with exit code 400 after its calculation failed
C20_Witness ==
    \E pk \in WorkChains :
        /\ profile.nodes[pk].exit_status = <<400>>
        /\ profile.nodes[pk].ctx[1].exit_status = <<200>>
        /\ profile.nodes[pk].ran = <<"run_quantics", "check_quantics">>

JustLoadedConfig(t) == pc[t] = "idle" /\ ret[t].op = "load_config"

\* C21 as stated: when every path of the saved configuration sits under a
\* path-typed key, the loaded configuration has, for every key, a value equal
\* to the saved one (so a saved path is a path again).
C21_Original ==
    \A t \in SeqCallers :
        (/\ JustLoadedConfig(t)
         /\ \A key \in DOMAIN ret[t].config :
               ret[t].config[key].t = "path" => key \in path_keys) =>
            /\ DOMAIN ret[t].loaded = DOMAIN ret[t].config
            /\ \A key \in DOMAIN ret[t].config : ret[t].loaded[key] = ret[t].config[key]

\* C21 amended: the loaded configuration has the same keys; a path saved under
\* a path-typed key comes back as an equal path; a string or list of strings
\* saved under any other key, and the empty string under any key, comes back
\* equal; a non-empty string saved under a path-typed key comes back as the
\* path it names, and a path saved under any other key as its string.
C21_RoundTrip ==
    \A t \in SeqCallers :
        JustLoadedConfig(t) =>
            /\ DOMAIN ret[t].loaded = DOMAIN ret[t].config
            /\ \A key \in DOMAIN ret[t].config :
                  LET value == ret[t].config[key]
                      loaded == ret[t].loaded[key]
                  IN  IF key \in path_keys
                      THEN IF value.t = "path" THEN loaded = value
                           ELSE IF value.v # <<>> THEN loaded = Path(value.v)
                           ELSE loaded = value
                      ELSE IF value.t = "path" THEN loaded = Str(value.v)
                           ELSE loaded = value

\* the configuration of the test: a path, two strings and a list of strings
C21_Witness ==
    /\ JustLoadedConfig(1)
    /\ ret[1].config =
          [key \in ConfigKeys |->
              IF key = "inp_file" THEN Path(INPUT_INP)
              ELSE IF key = "analysis_tools"
              THEN List(<<Str(RDCHECK_ETOT), Str(RDCHECK_SPOP)>>)
              ELSE Str(TEST_CALC)]
    /\ ret[1].loaded["inp_file"] = Path(INPUT_INP)
    /\ ret[1].loaded["analysis_tools"] = ret[1].config["analysis_tools"]


\* the callers that are inside run_calculation on `name`, blocked in process.wait()
Waiting(name) == {t \in AllCallers : pc[t] = "wait" /\ frame[t].name = name}

\* C22: the running guard of run_calculation is a check followed later by a
\* write.  A caller passes the check only when the record it reads is not
\* running, and every caller inside run_calculation holds at most one
\* simulation subprocess, so one caller at a time never has two subprocesses on
\* a calculation; callers that overlap can each have passed the check before
\* the status was written, and then each holds a subprocess in the same
\* working directory.
C22_GuardIsCheckThenWrite ==
    [][\A n \in Names :
          /\ \A t \in AllCallers :
                (n \in Registered /\ RunCallStep(t, n) /\ pc'[t] = "start") =>
                    calculations[n].status # "running"
          /\ procs'[n] = Cardinality({t \in AllCallers :
                                         pc'[t] = "wait" /\ frame'[t].name = n})
          /\ Cardinality({t \in AllCallers : pc'[t] # "idle"}) <= 1 => procs'[n] <= 1]_vars

\* both callers passed the check before either wrote the status, and two
\* subprocesses run in the working directory of the calculation
C22_Witness ==
    /\ procs[NameA] = 2
    /\ Waiting(NameA) = {1, 2}
    /\ calculations[NameA].status = "running"


\* the identifiers the worker may hold
MonitoredPks == {PkStr(pk) : pk \in Pks}

\* the signals of one kind the step emits for process_pk
Emitted(signal, process_pk) ==
    {e \in effects' : e[1] = signal /\ e[2] = process_pk}

Range(seq) == {seq[i] : i \in DOMAIN seq}

\* C23: each cycle of the monitoring worker polls every process of its
\* monitoring set; a process is polled only while it is in the set; when the
\* polled status is finished, excepted or killed the worker emits
\* calculation_finished once, with success exactly when the results lookup
\* returned no 'error' key, and removes the process, which is then never
\* polled nor reported again; any other status leaves the process monitored.
C23_PollUntilTerminal ==
    [][/\ (worker.at = "while" /\ worker'.at = "for") =>
              worker'.todo = worker.monitoring_processes /\ worker'.todo # {}
       /\ (worker.at = "for" /\ worker'.at # "for") => worker'.todo = {}
       /\ \A process_pk \in MonitoredPks :
             LET polls == Emitted("status_updated", process_pk)
                 ends == Emitted("calculation_finished", process_pk)
             IN  /\ polls # {} =>
                       /\ process_pk \in worker.monitoring_processes
                       /\ process_pk \notin Range(worker.finished)
                       /\ process_pk \notin worker'.todo
                 /\ \A e \in polls :
                       /\ e[3] \in {get_calculation_status(PkInt(process_pk), up) :
                                       up \in BOOLEAN}
                       /\ IF "state" \in DOMAIN e[3] /\ e[3].state \in TerminalStates
                          THEN /\ Cardinality(ends) = 1
                               /\ process_pk \notin worker'.monitoring_processes
                               /\ worker'.finished = Append(worker.finished, process_pk)
                          ELSE /\ ends = {}
                               /\ process_pk \in worker'.monitoring_processes
                               /\ worker'.finished = worker.finished
                 /\ \A e \in ends :
                       /\ polls # {}
                       /\ e[4] \in {get_calculation_results(PkInt(process_pk), up) :
                                       up \in BOOLEAN}
                       /\ e[3] = ("error" \notin DOMAIN e[4])]_vars

\* a finished process has been reported as a success and is no longer monitored
C23_Witness ==
    /\ worker.finished = <<PkStr(3)>>
    /\ PkStr(3) \notin worker.monitoring_processes
    /\ \E e \in effects : e[1] = "calculation_finished" /\ e[2] = PkStr(3) /\ e[3]
    /\ profile.nodes[3].state = "finished"


\* C30: a poll whose status lookup returned an error mapping (no 'state' key)
\* emits no calculation_finished and leaves the process in the monitoring
\* set, so the next cycle polls it again; once should_stop is set the loop
\* test ends run(), and after that the worker polls and emits nothing.
C30_ErrorStatusKeepsPolling ==
    [][/\ \A process_pk \in MonitoredPks :
             \A e \in Emitted("status_updated", process_pk) :
                "state" \notin DOMAIN e[3] =>
                   /\ "error" \in DOMAIN e[3]
                   /\ Emitted("calculation_finished", process_pk) = {}
                   /\ process_pk \in worker'.monitoring_processes
                   /\ worker'.finished = worker.finished
       /\ (worker.at = "while" /\ worker'.at = "for") =>
             /\ ~worker.should_stop
             /\ worker'.todo = worker.monitoring_processes
       /\ (worker.at = "while" /\ worker.should_stop) => worker'.at \in {"while", "exited"}
       /\ worker.at = "exited" =>
             /\ worker'.at = "exited"
             /\ \A e \in effects' : e[1] \notin {"status_updated", "calculation_finished"}
       /\ worker.should_stop => worker'.should_stop]_vars

\* the status lookup of a monitored process has just failed: the process is
\* still monitored and nothing has been reported for it
C30_Witness ==
    /\ \E e \in effects : e[1] = "status_updated" /\ e[2] = PkStr(3)
                          /\ "error" \in DOMAIN e[3]
    /\ PkStr(3) \in worker.monitoring_processes
    /\ worker.finished = <<>>
    /\ profile.nodes[3].state = "finished"


\* the DB folder of the calculation has been copied to working_directory/db_data
DbCopied(n) ==
    /\ n \in Registered
    /\ calculations[n].workflow_type = "DD-vMCG"
    /\ calculations[n].db_folder # <<>>
    /\ calculations[n].working_directory[1] \in DOMAIN fs
    /\ fs[calculations[n].working_directory[1]].db

\* C24: once the DB folder of a DD-vMCG calculation has been copied to db_data,
\* the copy stays, and every later run_calculation on the calculation returns
\* false without spawning the executable and leaves the record (status,
\* start_time, end_time) and the registry file as they were: at the
\* preparation step, or at the running check when the status is running.
C24_DbCopyBlocksRerun ==
    [][\A n \in Names :
          DbCopied(n) =>
             /\ DbCopied(n)'
             /\ \A t \in SeqCallers :
                   RunCallStep(t, n) =>
                      /\ pc'[t] = "idle"
                      /\ ret'[t].ok = FALSE
                      /\ ret'[t].stage = IF calculations[n].status = "running"
                                         THEN "check" ELSE "prepare"
                      /\ calculations' = calculations
                      /\ config_file' = config_file
                      /\ procs' = procs
                      /\ \A e \in effects' : e[1] # "spawn_quantics"]_vars

\* a DD-vMCG calculation that completed once is run again and fails at the
\* preparation, keeping the status and the times of the first run
C24_Witness ==
    /\ JustRan(1) /\ ret[1].stage = "prepare" /\ ~ret[1].ok
    /\ DbCopied(ret[1].name)
    /\ everCompleted[ret[1].name]
    /\ calculations[ret[1].name].status = "completed"
    /\ <<"copy_op", OPERATOR_OP>> \in effects


\* no run_calculation call on n is between its registry write and its return
NoRunInProgress(n) ==
    \A t \in AllCallers : ~(pc[t] \in {"spawn", "wait"} /\ frame[t].name = n)

\* C25: a record with status running and no run in progress (the owning
\* process ended after `running` was saved) keeps status running through
\* every step: the reload of the registry file by the next runner (also when
\* the process ends during the run), create_calculation (duplicate
\* name), run_calculation (rejected by the running check, returns false) and
\* both analysis entry points (return the empty mapping).
C25_RunningIsAbsorbing ==
    [][\A n \in Names :
          (/\ n \in Registered /\ calculations[n].status = "running"
           /\ NoRunInProgress(n) \/ ~RunnerStep) =>
             /\ n \in DOMAIN calculations'
             /\ calculations'[n].status = "running"
             /\ NoRunInProgress(n)'
             /\ config_file' = config_file
             /\ \A t \in SeqCallers :
                   /\ RunCallStep(t, n) => pc'[t] = "idle" /\ ~ret'[t].ok
                   /\ AnalysisCallStep(t, n) =>
                         pc'[t] = "idle" /\ ret'[t].map = EmptyMap /\ ~ret'[t].ran]_vars

\* a reloaded record is running although no subprocess exists, and an analysis
\* call on it has just returned the empty mapping
C25_Witness ==
    /\ JustAnalysed(1) /\ ret[1].map = EmptyMap
    /\ calculations[ret[1].name].status = "running"
    /\ calculations[ret[1].name].end_time = <<>>
    /\ procs[ret[1].name] = 0
    /\ NoRunInProgress(ret[1].name)


\* C26: a run never clears what the previous cycle left.  While a re-run is
\* running, end_time is still the previous run's (not later than the new
\* start_time) and results holds the previous entries; a run that ends failed
\* leaves results as it was, so the failed record keeps the earlier
\* output_directory, output_files and analysis results.
C26_RerunKeepsOldFields ==
    [][\A n \in Names :
          (/\ n \in Registered /\ n \in DOMAIN calculations'
           /\ calculations'[n].status \in {"running", "failed"}) =>
             /\ calculations'[n].results = calculations[n].results
             /\ calculations'[n].status = "running" =>
                   /\ calculations'[n].end_time = calculations[n].end_time
                   /\ calculations[n].end_time # <<>> =>
                         calculations[n].end_time[1] <= calculations'[n].start_time[1]]_vars

\* a re-run has failed and the record still carries the output directory, the
\* output files and the analysis results of the run that completed before
C26_Witness ==
    /\ JustRan(1) /\ ret[1].stage = "exit" /\ ~ret[1].ok
    /\ everCompleted[ret[1].name]
    /\ LET calc == calculations[ret[1].name]
       IN  /\ calc.status = "failed"
           /\ calc.results.output_directory # <<>>
           /\ calc.results.output_files # <<>>
           /\ calc.results.analysis # <<>>
           /\ calc.results.analysis[1] # EmptyMap


\* the directory name _check_output_files resolves: the name directive of
\* input.inp, else the calculation's name
CheckName(calc, dir) ==
    LET parsed == _get_output_name_from_inp(dir.input)
    IN  IF Truthy(parsed) THEN parsed[1] ELSE calc.name

DirOf(n) == fs[calculations[n].working_directory[1]]

\* calculation n is completed and the output directory resolved from its
\* input.inp does not exist
OutputMissing(n) ==
    /\ n \in Registered
    /\ calculations[n].status = "completed"
    /\ CheckName(calculations[n], DirOf(n)) \notin DOMAIN DirOf(n).out

\* the analysis call of the step returns {} and does nothing else
AnalysisRefused(t) ==
    /\ pc'[t] = "idle"
    /\ ret'[t].map = EmptyMap /\ ~ret'[t].ran /\ ret'[t].attempted = {}
    /\ calculations' = calculations
    /\ config_file' = config_file
    /\ fs' = fs
    /\ effects' = {}

\* the run of caller t on n ends with exit code 0 in this step and the output
\* directory resolved from input.inp does not exist afterwards
ExitWithoutOutput(t, n) ==
    /\ pc[t] = "wait" /\ frame[t].name = n
    /\ pc'[t] = "idle" /\ ret'[t].op = "run" /\ ret'[t].code = <<0>>
    /\ LET dir == fs'[calculations[n].working_directory[1]]
       IN  CheckName(calculations[n], dir) \notin DOMAIN dir.out

\* the last thing caller t did on n is a run that exited with code 0 without
\* the resolved output directory, or an analysis call refused since then
SinceExitWithoutOutput(t, n) ==
    /\ OutputMissing(n)
    /\ pc[t] = "idle"
    /\ \/ /\ ret[t].op = "run" /\ ret[t].name = n
          /\ ret[t].stage = "exit" /\ ret[t].code = <<0>>
       \/ /\ ret[t].op = "analysis" /\ ret[t].name = n
          /\ ~ret[t].ran

\* C27 as stated: after an exit with code 0 and no resolved output directory
\* the calculation is completed, true is returned and results gains nothing;
\* every analysis call that follows returns {} without running a tool,
\* writing results or saving.
C27_Original ==
    [][\A t \in SeqCallers, n \in Names :
          /\ ExitWithoutOutput(t, n) =>
                /\ calculations'[n].status = "completed"
                /\ ret'[t].ok
                /\ calculations'[n].results = calculations[n].results
          /\ (SinceExitWithoutOutput(t, n) /\ AnalysisCallStep(t, n)) =>
                AnalysisRefused(t)]_vars

\* C27: the same, where the analysis calls are refused unless results still
\* holds the output_name of an earlier run whose directory exists; such a
\* name is what the analysis methods resolve first.
C27_MissingOutputDirectory ==
    [][\A t \in SeqCallers, n \in Names :
          /\ ExitWithoutOutput(t, n) =>
                /\ calculations'[n].status = "completed"
                /\ ret'[t].ok
                /\ calculations'[n].results = calculations[n].results
          /\ (/\ SinceExitWithoutOutput(t, n) /\ AnalysisCallStep(t, n)
              /\ \/ calculations[n].results.output_name = <<>>
                 \/ calculations[n].results.output_name[1] \notin DOMAIN DirOf(n).out) =>
                AnalysisRefused(t)]_vars

\* a first run exited with code 0 without an output directory, and the
\* analysis call that followed returned the empty mapping
C27_Witness ==
    /\ JustAnalysed(1) /\ ret[1].map = EmptyMap /\ ~ret[1].ran
    /\ ret[1].tools # <<>>
    /\ SinceExitWithoutOutput(1, ret[1].name)
    /\ calculations[ret[1].name].results = EmptyResults
    /\ calculations[ret[1].name].end_time # <<>>


\* C28: the registry is loaded whole or not at all.  A runner constructed on
\* a registry file that cannot be parsed, or that holds a record lacking a key
\* from_dict reads, starts with the empty registry and leaves the file alone;
\* otherwise it holds every record of the file.  Each save writes the file
\* from the registry in memory, so after such a load a name of the old file
\* is accepted by create_calculation and the file then holds that record only.
C28_LoadIsAllOrNothing ==
    [][/\ <<"load">> \in effects' =>
             /\ config_file' = config_file
             /\ IF config_file = <<>> THEN calculations' = EmptyMap
                ELSE IF JsonLoads(config_file)
                        /\ \A n \in DOMAIN config_file[1] : Complete(config_file[1][n])
                THEN DOMAIN calculations' = DOMAIN config_file[1]
                ELSE calculations' = EmptyMap
       /\ <<"save">> \in effects' => config_file' = Serialise(calculations')
       /\ \A t \in SeqCallers, n \in Names :
             (calculations = EmptyMap /\ CreateCallStep(t, n)) =>
                 /\ ret'[t].raised = "none"
                 /\ DOMAIN calculations' = {n}
                 /\ JsonLoads(config_file')
                 /\ DOMAIN config_file'[1] = {n}]_vars

\* the registry file held the name and a hand-written partial record; the
\* runner loaded nothing, the name has been created a second time and the
\* file now holds the new record only
C28_Witness ==
    /\ ncalls = 2
    /\ ret[1].op = "create" /\ ret[1].raised = "none"
    /\ effects = {<<"mkdir", calculations[NameA].working_directory[1]>>, <<"save">>}
    /\ DOMAIN calculations = {NameA}
    /\ config_file = Serialise(calculations)


\* caller t's step is the return of an analysis call that got past its checks
AnalysisEndStep(t) ==
    /\ pc[t] = "tools" /\ pc'[t] = "idle"
    /\ ret'[t].op = "analysis" /\ ret'[t].ran

\* C29: an analysis call that got past its checks changes the record in one
\* place only.  run_analysis replaces results['analysis'] by the mapping of
\* this batch (the mapping it returns: earlier entries are gone, and it is
\* empty when no listed tool is recognised) and run_analysis_with_params does
\* the same to results['analysis_with_params']; the other slot, the
\* output-discovery keys, status, start_time and end_time stay as they were,
\* and nothing of the record changes while the tools run.
C29_AnalysisReplacesItsSlot ==
    [][\A t \in SeqCallers :
          /\ (pc[t] = "tools" /\ pc'[t] = "tools") => calculations' = calculations
          /\ AnalysisEndStep(t) =>
                LET n == ret'[t].name
                    batch == ret'[t].map
                IN  /\ DOMAIN batch = RecognisedOf(ret'[t].tools)
                    /\ calculations' =
                          [calculations EXCEPT ![n] =
                              IF ret'[t].params = <<>>
                              THEN [@ EXCEPT !.results.analysis = <<batch>>]
                              ELSE [@ EXCEPT !.results.analysis_with_params = <<batch>>]]]_vars

\* a run_analysis batch without a recognised tool has replaced the mapping of
\* an earlier batch by the empty one; the record still holds the output keys
C29_Witness ==
    /\ JustAnalysed(1) /\ ret[1].ran /\ ret[1].params = <<>>
    /\ ret[1].tools = <<RDGPOP_W>>
    /\ ncalls = 4
    /\ LET calc == calculations[ret[1].name]
       IN  /\ calc.results.analysis = <<EmptyMap>>
           /\ calc.results.analysis_with_params = <<>>
           /\ calc.results.output_name # <<>>
           /\ calc.status = "completed"

====
